---- MODULE Spec2Model ----
(***************************************************************************)
(* HoPiler front end: the Tokenizer (tokenizer.hpp), the Token model       *)
(* (tokens.hpp), the ExpressionNode tree (expNode.hpp) and the Parser      *)
(* (parser.hpp), as state machines.                                        *)
(*                                                                         *)
(* A character is a one-element string; a C++ std::string is a sequence of *)
(* characters.  The control characters the escape table produces and that  *)
(* TLA+ strings cannot spell are named "<CR>", "<BS>", "<VT>", "<FF>" and  *)
(* "<NUL>".                                                                *)
(***************************************************************************)
EXTENDS Integers, Sequences, FiniteSets, TLC

\* enum TokenType (tokens.hpp)
_keyWord == 0
_identifier == 1
_literal == 2
_operator == 3
_delimiter == 4
_comment == 5
_whitespace == 6
_expression == 7

\* enum KeyWordType (tokens.hpp)
_if == 0
_elif == 1
_else == 2
_for == 3
_while == 4
_do == 5
_return == 6
_break == 7
_continue == 8
_int == 9
_float == 10
_string == 11
_char == 12
_bool == 13

\* enum LiteralType (tokens.hpp)
_intLit == 0
_floatLit == 1
_stringLit == 2
_charLit == 3

\* enum OperatorType (tokens.hpp)
_add == 0
_sub == 1
_mul == 2
_div == 3
_mod == 4
_pow == 5
_and == 6
_or == 7
_not == 8
_xor == 9
_eq == 10
_neq == 11
_gte == 12
_lte == 13
_gt == 14
_lt == 15
_ass == 16
_assAdd == 17
_assSub == 18
_assMul == 19
_assDiv == 20
_assMod == 21
_assPow == 22

\* enum DelimiterType (tokens.hpp)
_bracketOpen == 0
_bracketClose == 1
_braceOpen == 2
_braceClose == 3
_sqOpen == 4
_sqClose == 5

\* enum WhiteSpaceType (tokens.hpp)
_space == 0
_tab == 1
_newLine == 2

(***************************************************************************)
(* Characters                                                              *)
(***************************************************************************)
NL == "\n"
TAB == "\t"
SP == " "
BSL == "\\"
DQ == "\""
SQ == "'"
HASH == "#"

Digit == {"0", "1", "2", "3", "4", "5", "6", "7", "8", "9"}

Alpha ==
    {"a", "b", "c", "d", "e", "f", "g", "h", "i", "j", "k", "l", "m",
     "n", "o", "p", "q", "r", "s", "t", "u", "v", "w", "x", "y", "z",
     "A", "B", "C", "D", "E", "F", "G", "H", "I", "J", "K", "L", "M",
     "N", "O", "P", "Q", "R", "S", "T", "U", "V", "W", "X", "Y", "Z"}

isdigit(x) == x \in Digit

isalpha(x) == x \in Alpha

isalnum(x) == isalpha(x) \/ isdigit(x)

(***************************************************************************)
(* Token (tokens.hpp).  A token is the _Token view that Token::get()       *)
(* returns: tokenType, the subtype code `token' and the text `value'.      *)
(* Comment, identifier and expression tokens never set a subtype code:     *)
(* the record has no `token' field, and a read of it goes through          *)
(* getToken below, which resolves the indeterminate value.                 *)
(***************************************************************************)
ExpressionToken == [tokenType |-> _expression, value |-> <<>>]

KeyWordToken(keywordType) ==
    [tokenType |-> _keyWord, token |-> keywordType, value |-> <<>>]

LiteralToken(literalType, value) ==
    [tokenType |-> _literal, token |-> literalType, value |-> value]

OperatorToken(operatorType) ==
    [tokenType |-> _operator, token |-> operatorType, value |-> <<>>]

DelimiterToken(delimiterType) ==
    [tokenType |-> _delimiter, token |-> delimiterType, value |-> <<>>]

WhiteSpaceToken(whiteSpaceType) ==
    [tokenType |-> _whitespace, token |-> whiteSpaceType, value |-> <<>>]

CommentToken(comment) == [tokenType |-> _comment, value |-> comment]

IdentifierToken(name) == [tokenType |-> _identifier, value |-> name]

HasSubtype(t) == t.tokenType \in {_keyWord, _literal, _operator, _delimiter, _whitespace}

\* Mutant of getPriority: the case of logical not is missing.
getPriorityWithoutNot(t) ==
    IF t.tokenType # _operator THEN 0
    ELSE CASE t.token = _pow -> 80
           [] t.token \in {_mul, _div, _mod} -> 60
           [] t.token \in {_add, _sub} -> 50
           [] t.token \in {_gt, _lt, _gte, _lte} -> 40
           [] t.token \in {_eq, _neq} -> 35
           [] t.token = _and -> 30
           [] t.token = _xor -> 25
           [] t.token = _or -> 20
           [] t.token \in {_ass, _assAdd, _assSub, _assMul, _assDiv,
                           _assMod, _assPow} -> 10
           [] OTHER -> 0

\* Token::getPriority: the switch on operatorType.
getPriority(t) ==
    IF t.tokenType # _operator THEN 0
    ELSE CASE t.token = _pow -> 80
           [] t.token \in {_mul, _div, _mod} -> 60
           [] t.token \in {_add, _sub} -> 50
           [] t.token \in {_gt, _lt, _gte, _lte} -> 40
           [] t.token \in {_eq, _neq} -> 35
           [] t.token = _and -> 30
           [] t.token = _xor -> 25
           [] t.token = _or -> 20
           [] t.token = _not -> 70
           [] t.token \in {_ass, _assAdd, _assSub, _assMul, _assDiv,
                           _assMod, _assPow} -> 10
           [] OTHER -> 0

\* enum Associativity
LeftAssoc == 0
RightAssoc == 1
NonAssoc == 2

\* Mutant of getAssociativity: the compound assignments are left out of
\* the right-associative cases and fall through to the default.
getAssociativityPlainAssignOnly(t) ==
    IF t.tokenType # _operator THEN NonAssoc
    ELSE CASE t.token \in {_pow, _not, _ass} -> RightAssoc
           [] t.token \in {_mul, _div, _mod, _add, _sub, _gt, _lt, _gte,
                           _lte, _eq, _neq, _and, _xor, _or} -> LeftAssoc
           [] OTHER -> NonAssoc

\* Token::getAssociativity: the switch on operatorType.
getAssociativity(t) ==
    IF t.tokenType # _operator THEN NonAssoc
    ELSE CASE t.token \in {_pow, _not, _ass, _assAdd, _assSub, _assMul,
                           _assDiv, _assMod, _assPow} -> RightAssoc
           [] t.token \in {_mul, _div, _mod, _add, _sub, _gt, _lt, _gte,
                           _lte, _eq, _neq, _and, _xor, _or} -> LeftAssoc
           [] OTHER -> NonAssoc

(***************************************************************************)
(* Tokenizer::parseCurrentToken.  The result is [ok |-> TRUE, tok |-> t]   *)
(* or [ok |-> FALSE, err |-> e], e naming the exception thrown.            *)
(***************************************************************************)
Returned(t) == [ok |-> TRUE, tok |-> t]

Thrown(e) == [ok |-> FALSE, err |-> e]

\* The keyword spellings, in the order the code compares them.
KeywordSpellings ==
    << <<<<"i", "n", "t">>, _int>>,
       <<<<"c", "h", "a", "r">>, _char>>,
       <<<<"f", "l", "o", "a", "t">>, _float>>,
       <<<<"s", "t", "r", "i", "n", "g">>, _string>>,
       <<<<"s", "t", "r">>, _string>>,
       <<<<"b", "o", "o", "l">>, _bool>>,
       <<<<"i", "f">>, _if>>,
       <<<<"e", "l", "i", "f">>, _elif>>,
       <<<<"e", "l", "s", "e">>, _else>>,
       <<<<"f", "o", "r">>, _for>>,
       <<<<"w", "h", "i", "l", "e">>, _while>>,
       <<<<"d", "o">>, _do>>,
       <<<<"r", "e", "t", "u", "r", "n">>, _return>>,
       <<<<"b", "r", "e", "a", "k">>, _break>>,
       <<<<"c", "o", "n", "t", "i", "n", "u", "e">>, _continue>> >>

\* The operator spellings, in the order the code compares them.
OperatorSpellings ==
    << <<<<"+">>, _add>>,
       <<<<"-">>, _sub>>,
       <<<<"*">>, _mul>>,
       <<<<"/">>, _div>>,
       <<<<"%">>, _mod>>,
       <<<<"*", "*">>, _pow>>,
       <<<<"a", "n", "d">>, _and>>,
       <<<<"&", "&">>, _and>>,
       <<<<"o", "r">>, _or>>,
       <<<<"|", "|">>, _or>>,
       <<<<"!">>, _not>>,
       <<<<"n", "o", "t">>, _not>>,
       <<<<"^">>, _xor>>,
       <<<<"x", "o", "r">>, _xor>>,
       <<<<"=", "=">>, _eq>>,
       <<<<"!", "=">>, _neq>>,
       <<<<">", "=">>, _gte>>,
       <<<<"<", "=">>, _lte>>,
       <<<<">">>, _gt>>,
       <<<<"<">>, _lt>>,
       <<<<"=">>, _ass>>,
       <<<<"+", "=">>, _assAdd>>,
       <<<<"-", "=">>, _assSub>>,
       <<<<"*", "=">>, _assMul>>,
       <<<<"/", "=">>, _assDiv>>,
       <<<<"%", "=">>, _assMod>>,
       <<<<"*", "*", "=">>, _assPow>> >>

\* The delimiter spellings, in the order the code compares them.
DelimiterSpellings ==
    << <<<<"(">>, _bracketOpen>>,
       <<<<")">>, _bracketClose>>,
       <<<<"{">>, _braceOpen>>,
       <<<<"}">>, _braceClose>>,
       <<<<"[">>, _sqOpen>>,
       <<<<"]">>, _sqClose>> >>

\* The index of the first entry of `table' whose spelling equals
\* currentToken (the first `if (currentToken == ...)' that is taken), or 0.
FirstMatch(table, currentToken) ==
    LET hits == {n \in 1..Len(table) : table[n][1] = currentToken}
    IN  IF hits = {} THEN 0 ELSE CHOOSE n \in hits : \A m \in hits : n <= m

IsPrefix(s, t) == Len(s) <= Len(t) /\ SubSeq(t, 1, Len(s)) = s

KeywordOf(currentToken) == FirstMatch(KeywordSpellings, currentToken)

\* Mutant of OperatorOf: the first spelling that is a prefix of the text wins.
OperatorOfFirstPrefix(currentToken) ==
    LET hits == {n \in 1..Len(OperatorSpellings) :
                    IsPrefix(OperatorSpellings[n][1], currentToken)}
    IN  IF hits = {} THEN 0 ELSE CHOOSE n \in hits : \A m \in hits : n <= m

OperatorOf(currentToken) == FirstMatch(OperatorSpellings, currentToken)

DelimiterOf(currentToken) == FirstMatch(DelimiterSpellings, currentToken)

totalDecimals(currentToken) ==
    Cardinality({n \in 1..Len(currentToken) : currentToken[n] = "."})

\* Mutant of NumberLiteral: the count of decimal points is not checked.
NumberLiteralAnyDots(currentToken) ==
    IF \E n \in 1..Len(currentToken) :
           ~(isdigit(currentToken[n]) \/ currentToken[n] = ".")
    THEN Thrown("Invalid number(float/int) literal.")
    ELSE Returned(LiteralToken(IF totalDecimals(currentToken) = 0
                               THEN _intLit ELSE _floatLit, currentToken))

\* The branch taken when the first character is a digit.
NumberLiteral(currentToken) ==
    IF \E n \in 1..Len(currentToken) :
           ~(isdigit(currentToken[n]) \/ currentToken[n] = ".")
    THEN Thrown("Invalid number(float/int) literal.")
    ELSE IF ~(totalDecimals(currentToken) = 0 \/ totalDecimals(currentToken) = 1)
    THEN Thrown("Invalid number(float/int) literal. Only one or zero . is permitted")
    ELSE Returned(LiteralToken(IF totalDecimals(currentToken) = 0
                               THEN _intLit ELSE _floatLit, currentToken))

\* Mutant of Identifier: digits are refused after the first character.
IdentifierLettersOnly(currentToken) ==
    IF \E n \in 1..Len(currentToken) :
           ~(currentToken[n] = "_" \/ isalpha(currentToken[n]))
    THEN Thrown("Identifiers must always start with a _ or an alphabet")
    ELSE Returned(IdentifierToken(currentToken))

\* The branch taken when the first character is `_' or a letter.
Identifier(currentToken) ==
    IF \E n \in 1..Len(currentToken) :
           ~(currentToken[n] = "_" \/ isalnum(currentToken[n]))
    THEN Thrown("Identifiers must always start with a _ or an alphabet")
    ELSE Returned(IdentifierToken(currentToken))

parseCurrentToken(currentToken) ==
    IF KeywordOf(currentToken) # 0
    THEN Returned(KeyWordToken(KeywordSpellings[KeywordOf(currentToken)][2]))
    ELSE IF OperatorOf(currentToken) # 0
    THEN Returned(OperatorToken(OperatorSpellings[OperatorOf(currentToken)][2]))
    ELSE IF DelimiterOf(currentToken) # 0
    THEN Returned(DelimiterToken(DelimiterSpellings[DelimiterOf(currentToken)][2]))
    ELSE IF currentToken = <<>>
    THEN Thrown("out_of_range")          \* currentToken.at(0) on an empty string
    ELSE IF isdigit(currentToken[1])
    THEN NumberLiteral(currentToken)
    ELSE IF currentToken[1] = "_" \/ isalpha(currentToken[1])
    THEN Identifier(currentToken)
    ELSE Thrown("The given token is invalid")

(***************************************************************************)
(* State.  Tokenizer::_getTokens: the source text, the loop index i, the   *)
(* in-progress text, the output vector and the four mode flags;            *)
(* tokenizerPc is "loop" while the for loop runs, "done" once _getTokens   *)
(* has returned and "failed" once an exception has left it, and            *)
(* tokenizerError is that exception.                                       *)
(***************************************************************************)
VARIABLES sourceCode, i, currentToken, tokens,
          escapeMode, commentMode, stringMode, charMode,
          tokenizerPc, tokenizerError

tokenizerVars ==
    <<sourceCode, i, currentToken, tokens,
      escapeMode, commentMode, stringMode, charMode,
      tokenizerPc, tokenizerError>>

\* Parser::parseTree: the token vector, the position of the range-for loop
\* in it, the two stacks and the root; parserPc is "idle" before the Parser
\* is constructed, then "loop", "done" or "failed" as for the tokenizer.
\* tree is what the caller holds: <<>> until getTree has returned the root.
VARIABLES parserTokens, tokenIndex, operandStack, expressionStack, head,
          parserPc, parserError, tree

parserVars ==
    <<parserTokens, tokenIndex, operandStack, expressionStack, head,
      parserPc, parserError, tree>>

\* One call of a pure member function: fnCall is <<name, argument>> and
\* fnResult is <<>> before the call and <<value>> after it.
VARIABLES fnCall, fnResult

fnVars == <<fnCall, fnResult>>

\* ExpressionNode objects in memory.  heap[id] is the object with identity
\* id: its token and the identities of the elements of its children
\* vector, each element an object of its own.  Objects 1 and 2 are two
\* nodes the caller holds; childList is the caller's vector of nodes, as
\* returned by getChildren; nodeCall is the call the caller made last.
VARIABLES heap, childList, nodeCall

nodeVars == <<heap, childList, nodeCall>>

vars == <<tokenizerVars, parserVars, fnVars, nodeVars>>

\* The locals and members of _getTokens as one value.
TokenizerState ==
    [currentToken |-> currentToken, tokens |-> tokens,
     escapeMode |-> escapeMode, commentMode |-> commentMode,
     stringMode |-> stringMode, charMode |-> charMode,
     pc |-> tokenizerPc, error |-> tokenizerError]

\* The state at the top of _getTokens, before the first character.
TokenizerStart ==
    [currentToken |-> <<>>, tokens |-> <<>>,
     escapeMode |-> FALSE, commentMode |-> FALSE,
     stringMode |-> FALSE, charMode |-> FALSE,
     pc |-> "loop", error |-> "none"]

Throw(s, e) == [s EXCEPT !.pc = "failed", !.error = e]

\* Mutant of EscapeStart: the backslash is kept in the token text.
EscapeStartKeepsBackslash(s) ==
    [s EXCEPT !.escapeMode = TRUE, !.currentToken = Append(@, BSL)]

\* if (!escapeMode && current == '\\')
EscapeStart(s) == [s EXCEPT !.escapeMode = TRUE]

\* Mutant of CommentStart: the text pending before `#' is kept.
CommentStartKeepsPending(s) == [s EXCEPT !.commentMode = TRUE]

\* if (current == '#' && !(stringMode || charMode || commentMode))
CommentStart(s) == [s EXCEPT !.currentToken = <<>>, !.commentMode = TRUE]

\* Mutant of StringQuote: the opening quote keeps the pending text.
StringQuoteKeepsPending(s) ==
    IF s.stringMode
    THEN [s EXCEPT !.stringMode = FALSE,
                   !.tokens = Append(@, LiteralToken(_stringLit, s.currentToken)),
                   !.currentToken = <<>>]
    ELSE [s EXCEPT !.stringMode = TRUE]

\* if (current == '"' && !(commentMode || charMode || escapeMode))
StringQuote(s) ==
    IF s.stringMode
    THEN [s EXCEPT !.stringMode = FALSE,
                   !.tokens = Append(@, LiteralToken(_stringLit, s.currentToken)),
                   !.currentToken = <<>>]
    ELSE [s EXCEPT !.currentToken = <<>>, !.stringMode = TRUE]

\* The length test on the closing quote of a character literal.
CharLengthOk(text) ==
    ~(Len(text) # 1 /\ ~(Len(text) = 2 /\ text[1] = BSL))

\* if (current == '\'' && !(commentMode || stringMode || escapeMode))
CharQuote(s) ==
    IF s.charMode
    THEN IF ~CharLengthOk(s.currentToken)
         THEN Throw([s EXCEPT !.charMode = FALSE],
                    "The length of the character should exactly be 1.")
         ELSE [s EXCEPT !.charMode = FALSE,
                        !.tokens = Append(@, LiteralToken(_charLit, s.currentToken)),
                        !.currentToken = <<>>]
    ELSE [s EXCEPT !.currentToken = <<>>, !.charMode = TRUE]

\* try { tokens.push_back(parseCurrentToken(currentToken)); } catch (...) { }
TryPushCurrentToken(s) ==
    LET r == parseCurrentToken(s.currentToken)
    IN  IF r.ok THEN [s EXCEPT !.tokens = Append(@, r.tok)] ELSE s

\* tokens.push_back(parseCurrentToken(currentToken)), outside any try block
PushCurrentToken(s) ==
    LET r == parseCurrentToken(s.currentToken)
    IN  IF r.ok THEN [s EXCEPT !.tokens = Append(@, r.tok)] ELSE Throw(s, r.err)

\* Mutant of NewlineFlush: the text pending at the end of a line is
\* dropped instead of classified.
NewlineFlushDropsPending(s) ==
    LET s1 == IF s.commentMode
              THEN [s EXCEPT !.commentMode = FALSE,
                             !.tokens = Append(@, CommentToken(s.currentToken))]
              ELSE s
    IN  [s1 EXCEPT !.tokens = Append(@, WhiteSpaceToken(_newLine)),
                   !.currentToken = <<>>]

\* if (current == '\n') { ... }: no continue, the code below it still runs
NewlineFlush(s) ==
    LET s1 == IF s.commentMode
              THEN [s EXCEPT !.commentMode = FALSE,
                             !.tokens = Append(@, CommentToken(s.currentToken))]
              ELSE IF ~(s.commentMode \/ s.charMode \/ s.stringMode
                        \/ s.currentToken = <<>>)
              THEN TryPushCurrentToken(s)
              ELSE s
    IN  [s1 EXCEPT !.tokens = Append(@, WhiteSpaceToken(_newLine)),
                   !.currentToken = <<>>]

\* Mutant of PushWhitespace: the whitespace token is filtered out.
PushWhitespaceFiltered(s, current) ==
    LET s1 == IF current = SP THEN PushCurrentToken(s) ELSE s
    IN  IF s1.pc = "failed" THEN s1 ELSE [s1 EXCEPT !.currentToken = <<>>]

\* if (!(commentMode || charMode || stringMode) && (tab, space or newline))
PushWhitespace(s, current) ==
    LET s1 == IF current = SP THEN PushCurrentToken(s) ELSE s
        type == IF current = SP THEN _space ELSE _tab
    IN  IF s1.pc = "failed"
        THEN s1
        ELSE [s1 EXCEPT !.tokens = Append(@, WhiteSpaceToken(type)),
                        !.currentToken = <<>>]

\* switch (current) of the escape block: the decoded character.
EscapeTable ==
    [c \in {"n", "t", "r", "b", "v", "f", "0", SQ, DQ, BSL} |->
        CASE c = "n" -> NL
          [] c = "t" -> TAB
          [] c = "r" -> "<CR>"
          [] c = "b" -> "<BS>"
          [] c = "v" -> "<VT>"
          [] c = "f" -> "<FF>"
          [] c = "0" -> "<NUL>"
          [] OTHER -> c]

\* if (escapeMode) { ... } currentToken.push_back(current); and the
\* whitespace switch that ends the loop body
AppendChar(s, current) ==
    IF s.escapeMode /\ current \notin DOMAIN EscapeTable
    THEN Throw(s, "Invalid character after \\ (escape character).")
    ELSE LET decoded == IF s.escapeMode THEN EscapeTable[current] ELSE current
             s1 == [s EXCEPT !.escapeMode = FALSE,
                             !.currentToken = Append(@, decoded)]
         IN  IF ~(s1.commentMode \/ s1.stringMode \/ s1.charMode)
                /\ decoded \in {NL, TAB, SP}
             THEN [s1 EXCEPT !.tokens =
                                Append(@, WhiteSpaceToken(
                                    CASE decoded = NL -> _newLine
                                      [] decoded = TAB -> _tab
                                      [] decoded = SP -> _space)),
                             !.currentToken = <<>>]
             ELSE s1

\* Mutant of Branch: `#' opens a comment inside a string or a character
\* literal too.
BranchCommentInLiteral(s, current) ==
    IF ~s.escapeMode /\ current = BSL THEN "escapeStart"
    ELSE IF current = HASH /\ ~s.commentMode
    THEN "commentStart"
    ELSE IF current = DQ /\ ~(s.commentMode \/ s.charMode \/ s.escapeMode)
    THEN "stringQuote"
    ELSE IF current = SQ /\ ~(s.commentMode \/ s.stringMode \/ s.escapeMode)
    THEN "charQuote"
    ELSE IF current = NL THEN "newline"
    ELSE IF ~(s.commentMode \/ s.charMode \/ s.stringMode) /\ current \in {TAB, SP}
    THEN "whitespace"
    ELSE "other"

\* Which `if' of the loop body the character takes first.
Branch(s, current) ==
    IF ~s.escapeMode /\ current = BSL THEN "escapeStart"
    ELSE IF current = HASH /\ ~(s.stringMode \/ s.charMode \/ s.commentMode)
    THEN "commentStart"
    ELSE IF current = DQ /\ ~(s.commentMode \/ s.charMode \/ s.escapeMode)
    THEN "stringQuote"
    ELSE IF current = SQ /\ ~(s.commentMode \/ s.stringMode \/ s.escapeMode)
    THEN "charQuote"
    ELSE IF current = NL THEN "newline"
    ELSE IF ~(s.commentMode \/ s.charMode \/ s.stringMode) /\ current \in {TAB, SP}
    THEN "whitespace"
    ELSE "other"

\* One iteration of the for loop on the character `current'.
LoopBody(s, current) ==
    CASE Branch(s, current) = "escapeStart" -> EscapeStart(s)
      [] Branch(s, current) = "commentStart" -> CommentStart(s)
      [] Branch(s, current) = "stringQuote" -> StringQuote(s)
      [] Branch(s, current) = "charQuote" -> CharQuote(s)
      [] Branch(s, current) = "newline" ->
            LET s1 == NewlineFlush(s)
            IN  IF ~(s1.commentMode \/ s1.charMode \/ s1.stringMode)
                THEN PushWhitespace(s1, current)
                ELSE AppendChar(s1, current)
      [] Branch(s, current) = "whitespace" -> PushWhitespace(s, current)
      [] OTHER -> AppendChar(s, current)

\* Mutant of Finish: the final token is classified outside the try block.
FinishUncaught(s) ==
    LET s1 == IF s.commentMode
              THEN [s EXCEPT !.commentMode = FALSE,
                             !.tokens = Append(@, CommentToken(s.currentToken))]
              ELSE IF ~(s.commentMode \/ s.charMode \/ s.stringMode
                        \/ s.currentToken = <<>>)
              THEN PushCurrentToken(s)
              ELSE s
    IN  IF s1.pc = "failed" THEN s1 ELSE [s1 EXCEPT !.pc = "done"]

\* The code after the loop: the open comment or the final token.
Finish(s) ==
    LET s1 == IF s.commentMode
              THEN [s EXCEPT !.commentMode = FALSE,
                             !.tokens = Append(@, CommentToken(s.currentToken))]
              ELSE IF ~(s.commentMode \/ s.charMode \/ s.stringMode
                        \/ s.currentToken = <<>>)
              THEN TryPushCurrentToken(s)
              ELSE s
    IN  [s1 EXCEPT !.pc = "done"]

\* Mutant of NextIndex: the index does not advance.
NextIndexStuck(n) == n

\* i++ of the for loop
NextIndex(n) == n + 1

\* _getTokens run to its end on `code' from state s, as a function.
RECURSIVE RunFrom(_, _, _)
RunFrom(s, code, n) ==
    IF s.pc # "loop" THEN s
    ELSE IF ~(n < Len(code)) THEN Finish(s)
    ELSE RunFrom(LoopBody(s, code[n + 1]), code, n + 1)

_getTokens(code) == RunFrom(TokenizerStart, code, 0)

SetTokenizerState(s) ==
    /\ currentToken' = s.currentToken
    /\ tokens' = s.tokens
    /\ escapeMode' = s.escapeMode
    /\ commentMode' = s.commentMode
    /\ stringMode' = s.stringMode
    /\ charMode' = s.charMode
    /\ tokenizerPc' = s.pc
    /\ tokenizerError' = s.error

\* One iteration of the loop, taking branch b.
ScanIteration(b) ==
    /\ i < Len(sourceCode)
    /\ Branch(TokenizerState, sourceCode[i + 1]) = b
    /\ LET s == LoopBody(TokenizerState, sourceCode[i + 1])
       IN  /\ SetTokenizerState(s)
           /\ i' = IF s.pc = "failed" THEN i ELSE NextIndex(i)
    /\ UNCHANGED sourceCode
    /\ UNCHANGED <<parserVars, fnVars, nodeVars>>

ScanEscapeStart ==
    /\ tokenizerPc = "loop"
    /\ ScanIteration("escapeStart")

ScanCommentStart ==
    /\ tokenizerPc = "loop"
    /\ ScanIteration("commentStart")

ScanStringQuote ==
    /\ tokenizerPc = "loop"
    /\ ScanIteration("stringQuote")

ScanCharQuote ==
    /\ tokenizerPc = "loop"
    /\ ScanIteration("charQuote")

ScanNewline ==
    /\ tokenizerPc = "loop"
    /\ ScanIteration("newline")

ScanWhitespace ==
    /\ tokenizerPc = "loop"
    /\ ScanIteration("whitespace")

ScanOther ==
    /\ tokenizerPc = "loop"
    /\ ScanIteration("other")

ScanFinish ==
    /\ tokenizerPc = "loop"
    /\ ~(i < Len(sourceCode))
    /\ SetTokenizerState(Finish(TokenizerState))
    /\ UNCHANGED <<sourceCode, i>>
    /\ UNCHANGED <<parserVars, fnVars, nodeVars>>

TokenizerNext ==
    \/ ScanEscapeStart
    \/ ScanCommentStart
    \/ ScanStringQuote
    \/ ScanCharQuote
    \/ ScanNewline
    \/ ScanWhitespace
    \/ ScanOther
    \/ ScanFinish

(***************************************************************************)
(* ExpressionNode (expNode.hpp): a token and the ordered child list.       *)
(***************************************************************************)
ExpressionNode(token) == [token |-> token, children |-> <<>>]

\* Mutant of addChild: the child is put at the front.
addChildFront(node, child) == [node EXCEPT !.children = <<child>> \o @]

addChild(node, child) == [node EXCEPT !.children = Append(@, child)]

getTokenType(node) == node.token.tokenType

\* ExpressionNode::getToken.  Token::get() leaves its local `token'
\* unassigned for a comment, identifier or expression token: the value
\* read is indeterminate, and u stands for it.
getToken(node, u) == IF HasSubtype(node.token) THEN node.token.token ELSE u

\* The values an indeterminate int is drawn from: every code the
\* comparisons of the parser distinguish, and one that is none of them.
Indeterminate == (0 - 1).._bool

\* Bound on the objects alive or dead before a call that makes copies.
MaxHeap == 6

(***************************************************************************)
(* ExpressionNode objects: the copies C++ makes are made here.  A node     *)
(* passed or returned by value, and an element constructed by push_back,   *)
(* is a new object, with new objects for all the nodes below it.           *)
(***************************************************************************)
\* The copy constructor: a new object for node id and for every node
\* below it.  Returns the new heap and the identity of the copy.
RECURSIVE CopyNode(_, _), CopyChildren(_, _)
CopyNode(h, id) ==
    LET below == CopyChildren(h, h[id].children)
        copied == Append(below[1], [token |-> h[id].token, children |-> below[2]])
    IN  <<copied, Len(copied)>>

\* The copy of a vector of nodes: the new heap and the new elements.
CopyChildren(h, ids) ==
    IF ids = <<>> THEN <<h, <<>>>>
    ELSE LET first == CopyNode(h, Head(ids))
             rest == CopyChildren(first[1], Tail(ids))
         IN  <<rest[1], <<first[2]>> \o rest[2]>>

\* Mutant of push_back: the new element is put at the front.
push_front(h, id, node) ==
    LET copy == CopyNode(h, node)
    IN  [copy[1] EXCEPT ![id].children = <<copy[2]>> \o @]

\* this->children.push_back(node): the element is a copy of node.
push_back(h, id, node) ==
    LET copy == CopyNode(h, node)
    IN  [copy[1] EXCEPT ![id].children = Append(@, copy[2])]

\* Mutant of erase: the last element goes, whatever the index.
eraseLast(h, id, index) ==
    [h EXCEPT ![id].children = SubSeq(@, 1, Len(@) - 1)]

\* this->children.erase(this->children.begin() + index), index in range.
erase(h, id, index) ==
    [h EXCEPT ![id].children =
        SubSeq(@, 1, index) \o SubSeq(@, index + 2, Len(@))]

\* ExpressionNode::removeChild
removeChild(h, id, index) == erase(h, id, index)

\* Mutant of getChildren: the elements of the node's own vector are
\* handed out, not copies of them.
getChildrenByReference(h, id) == <<h, h[id].children>>

\* ExpressionNode::getChildren: return this->children, by value.
getChildren(h, id) == CopyChildren(h, h[id].children)

\* The nodes the caller holds.
Roots == {1, 2}

\* The tree below object id, as a value.
RECURSIVE Value(_, _)
Value(h, id) ==
    [token |-> h[id].token,
     children |-> [n \in 1..Len(h[id].children) |-> Value(h, h[id].children[n])]]

\* p.addChild(q), for nodes p and q of the caller.
NodeAddChild ==
    \E a \in Roots, b \in Roots :
        /\ Len(heap) < MaxHeap
        /\ heap' = push_back(heap, a, b)
        /\ nodeCall' = <<"addChild", a, b>>
        /\ UNCHANGED childList
        /\ UNCHANGED <<tokenizerVars, parserVars, fnVars>>

\* p.removeChild(index), the index in range (out of range it is undefined).
NodeRemoveChild ==
    \E a \in Roots :
        \E index \in 0..(Len(heap[a].children) - 1) :
            /\ heap' = removeChild(heap, a, index)
            /\ nodeCall' = <<"removeChild", a, index>>
            /\ UNCHANGED childList
            /\ UNCHANGED <<tokenizerVars, parserVars, fnVars>>

\* list = p.getChildren()
NodeGetChildren ==
    \E a \in Roots :
        /\ Len(heap) < MaxHeap
        /\ heap' = getChildren(heap, a)[1]
        /\ childList' = getChildren(heap, a)[2]
        /\ nodeCall' = <<"getChildren", a>>
        /\ UNCHANGED <<tokenizerVars, parserVars, fnVars>>

\* list.push_back(q)
ListPushBack ==
    \E b \in Roots :
        /\ Len(heap) < MaxHeap
        /\ heap' = CopyNode(heap, b)[1]
        /\ childList' = Append(childList, CopyNode(heap, b)[2])
        /\ nodeCall' = <<"listPushBack", b>>
        /\ UNCHANGED <<tokenizerVars, parserVars, fnVars>>

\* list.erase(list.begin() + index)
ListErase ==
    \E index \in 0..(Len(childList) - 1) :
        /\ childList' = SubSeq(childList, 1, index)
                            \o SubSeq(childList, index + 2, Len(childList))
        /\ nodeCall' = <<"listErase", index>>
        /\ UNCHANGED heap
        /\ UNCHANGED <<tokenizerVars, parserVars, fnVars>>

\* list[index].addChild(q)
ListElementAddChild ==
    \E index \in 0..(Len(childList) - 1), b \in Roots :
        /\ Len(heap) < MaxHeap
        /\ heap' = push_back(heap, childList[index + 1], b)
        /\ nodeCall' = <<"listElementAddChild", index, b>>
        /\ UNCHANGED childList
        /\ UNCHANGED <<tokenizerVars, parserVars, fnVars>>

NodeNext ==
    \/ NodeAddChild
    \/ NodeRemoveChild
    \/ NodeGetChildren
    \/ ListPushBack
    \/ ListErase
    \/ ListElementAddChild

(***************************************************************************)
(* Parser (parser.hpp)                                                     *)
(***************************************************************************)
\* Mutant of isValidKeywordLiteralPair: every pair is accepted.
isValidAnyPair(keyword, literal) == TRUE

\* Mutant of isValidKeywordLiteralPair: float also takes an int literal.
isValidFloatFromInt(keyword, literal) ==
    <<keyword, literal>> \in
        {<<_int, _intLit>>, <<_char, _charLit>>, <<_string, _stringLit>>,
         <<_float, _floatLit>>, <<_float, _intLit>>}

isValidKeywordLiteralPair(keyword, literal) ==
    LET validPairs == << <<_int, _intLit>>, <<_char, _charLit>>,
                         <<_string, _stringLit>>, <<_float, _floatLit>> >>
    IN  \E n \in 1..4 : keyword = validPairs[n][1] /\ literal = validPairs[n][2]

\* The locals and members of parseTree as one value.
ParserState ==
    [operandStack |-> operandStack, expressionStack |-> expressionStack,
     head |-> head, pc |-> parserPc, error |-> parserError]

\* The state at the top of parseTree: head(Token()) and two empty stacks.
ParserStart ==
    [operandStack |-> <<>>, expressionStack |-> <<>>,
     head |-> ExpressionNode(ExpressionToken), pc |-> "loop", error |-> "none"]

Top(stack) == stack[Len(stack)]

Pop(stack) == SubSeq(stack, 1, Len(stack) - 1)

\* Mutant of AssembleStatement: the literal is attached before the name.
AssembleStatementLiteralFirst(op, varName, literal) ==
    addChild(addChild(op, literal), varName)

\* op.addChild(varName); op.addChild(literal);
AssembleStatement(op, varName, literal) ==
    addChild(addChild(op, varName), literal)

\* The condition of the `if' that guards statement assembly on a newline.
StatementReady(p) ==
    /\ Len(p.operandStack) >= 3
    /\ Len(p.expressionStack) >= 1
    /\ getTokenType(Top(p.expressionStack)) = _operator
    /\ Top(p.expressionStack).token.token = _ass

\* Mutant of StatementBoundary: a newline that finds no complete statement
\* on the stacks is an error.
StatementBoundaryStrict(p, ud, ul) ==
    IF StatementReady(p)
    THEN LET op == Top(p.expressionStack)
             literal == p.operandStack[Len(p.operandStack)]
             varName == p.operandStack[Len(p.operandStack) - 1]
             dataType == p.operandStack[Len(p.operandStack) - 2]
             popped == [p EXCEPT !.expressionStack = Pop(@),
                                 !.operandStack = Pop(Pop(Pop(@)))]
         IN  IF ~isValidKeywordLiteralPair(getToken(dataType, ud),
                                           getToken(literal, ul))
             THEN [popped EXCEPT !.pc = "failed",
                                 !.error = "Invalid assignment"]
             ELSE [popped EXCEPT
                      !.head = addChild(@, AssembleStatement(op, varName, literal)),
                      !.expressionStack = <<>>,
                      !.operandStack = <<>>]
    ELSE [p EXCEPT !.pc = "failed", !.error = "Incomplete statement"]

\* Mutant of StatementBoundary: a type mismatch is reported, the statement
\* is dropped and the loop goes on.
StatementBoundaryLenient(p, ud, ul) ==
    IF StatementReady(p)
    THEN LET op == Top(p.expressionStack)
             literal == p.operandStack[Len(p.operandStack)]
             varName == p.operandStack[Len(p.operandStack) - 1]
             dataType == p.operandStack[Len(p.operandStack) - 2]
             popped == [p EXCEPT !.expressionStack = Pop(@),
                                 !.operandStack = Pop(Pop(Pop(@)))]
         IN  IF ~isValidKeywordLiteralPair(getToken(dataType, ud),
                                           getToken(literal, ul))
             THEN [popped EXCEPT !.error = "Invalid assignment"]
             ELSE [popped EXCEPT
                      !.head = addChild(@, AssembleStatement(op, varName, literal)),
                      !.expressionStack = <<>>,
                      !.operandStack = <<>>]
    ELSE p

\* Mutant of StatementBoundary: after a statement is assembled the entries
\* below the four it used stay on the stacks.
StatementBoundaryKeepsSurplus(p, ud, ul) ==
    IF StatementReady(p)
    THEN LET op == Top(p.expressionStack)
             literal == p.operandStack[Len(p.operandStack)]
             varName == p.operandStack[Len(p.operandStack) - 1]
             dataType == p.operandStack[Len(p.operandStack) - 2]
             popped == [p EXCEPT !.expressionStack = Pop(@),
                                 !.operandStack = Pop(Pop(Pop(@)))]
         IN  IF ~isValidKeywordLiteralPair(getToken(dataType, ud),
                                           getToken(literal, ul))
             THEN [popped EXCEPT !.pc = "failed",
                                 !.error = "Invalid assignment"]
             ELSE [popped EXCEPT
                      !.head = addChild(@, AssembleStatement(op, varName, literal))]
    ELSE p

\* if (t.tokenType == _whitespace) { ... }: the newline token.  ud and ul
\* resolve dataType.getToken() and literal.getToken() when indeterminate.
StatementBoundary(p, ud, ul) ==
    IF StatementReady(p)
    THEN LET op == Top(p.expressionStack)
             literal == p.operandStack[Len(p.operandStack)]
             varName == p.operandStack[Len(p.operandStack) - 1]
             dataType == p.operandStack[Len(p.operandStack) - 2]
             popped == [p EXCEPT !.expressionStack = Pop(@),
                                 !.operandStack = Pop(Pop(Pop(@)))]
         IN  IF ~isValidKeywordLiteralPair(getToken(dataType, ud),
                                           getToken(literal, ul))
             THEN [popped EXCEPT !.pc = "failed",
                                 !.error = "Invalid assignment"]
             ELSE [popped EXCEPT
                      !.head = addChild(@, AssembleStatement(op, varName, literal)),
                      !.expressionStack = <<>>,
                      !.operandStack = <<>>]
    ELSE p

\* Mutant of IsSkipped: only comments are skipped.
IsSkippedCommentOnly(t) == t.tokenType = _comment

IsSkipped(t) ==
    \/ t.tokenType = _comment
    \/ (t.tokenType = _whitespace /\ (t.token = _space \/ t.token = _tab))

\* Mutant of IsOperand: every keyword is an operand.
IsOperandAnyKeyword(t) ==
    \/ t.tokenType = _literal
    \/ t.tokenType = _identifier
    \/ t.tokenType = _keyWord

IsOperand(t) ==
    \/ t.tokenType = _literal
    \/ t.tokenType = _identifier
    \/ (t.tokenType = _keyWord /\ (t.token >= _int /\ t.token <= _bool))

\* Mutant of IsAssignment: every operator is pushed.
IsAssignmentAnyOperator(t) == TRUE

IsAssignment(t) ==
    t.token \in {_ass, _assAdd, _assDiv, _assMod, _assMul, _assPow, _assSub}

\* Which branch of the loop body of parseTree the token takes.
ParseBranch(t) ==
    IF IsSkipped(t) THEN "skip"
    ELSE IF t.tokenType = _whitespace THEN "newline"
    ELSE IF IsOperand(t) THEN "operand"
    ELSE IF t.tokenType = _operator THEN "operator"
    ELSE "none"

\* One iteration of the loop of parseTree on token t.
ParseBody(p, t, ud, ul) ==
    CASE ParseBranch(t) = "skip" -> p
      [] ParseBranch(t) = "newline" -> StatementBoundary(p, ud, ul)
      [] ParseBranch(t) = "operand" ->
            [p EXCEPT !.operandStack = Append(@, ExpressionNode(t))]
      [] ParseBranch(t) = "operator" ->
            IF IsAssignment(t)
            THEN [p EXCEPT !.expressionStack = Append(@, ExpressionNode(t))]
            ELSE p
      [] OTHER -> p

\* The values the getToken() call on the operand `depth' below the top may
\* return on token t: any, when that operand carries no subtype code.
ReadChoices(p, t, depth) ==
    IF /\ ParseBranch(t) = "newline"
       /\ StatementReady(p)
       /\ ~HasSubtype(p.operandStack[Len(p.operandStack) - depth].token)
    THEN Indeterminate
    ELSE {0}

SetParserState(p) ==
    /\ operandStack' = p.operandStack
    /\ expressionStack' = p.expressionStack
    /\ head' = p.head
    /\ parserPc' = p.pc
    /\ parserError' = p.error

\* One iteration of the loop of parseTree, taking branch b.
ParseIteration(b) ==
    /\ tokenIndex < Len(parserTokens)
    /\ ParseBranch(parserTokens[tokenIndex + 1]) = b
    /\ \E ud \in ReadChoices(ParserState, parserTokens[tokenIndex + 1], 2),
          ul \in ReadChoices(ParserState, parserTokens[tokenIndex + 1], 0) :
          LET p == ParseBody(ParserState, parserTokens[tokenIndex + 1], ud, ul)
          IN  /\ SetParserState(p)
              /\ tokenIndex' = IF p.pc = "failed" THEN tokenIndex
                               ELSE tokenIndex + 1
    /\ UNCHANGED <<parserTokens, tree>>
    /\ UNCHANGED <<tokenizerVars, fnVars, nodeVars>>

ParseSkip ==
    /\ parserPc = "loop"
    /\ ParseIteration("skip")

ParseNewline ==
    /\ parserPc = "loop"
    /\ ParseIteration("newline")

ParseOperand ==
    /\ parserPc = "loop"
    /\ ParseIteration("operand")

ParseOperator ==
    /\ parserPc = "loop"
    /\ ParseIteration("operator")

ParseNoAction ==
    /\ parserPc = "loop"
    /\ ParseIteration("none")

\* Mutant of ParseFinish: the end of the input acts as a last newline.
ParseFinishWithFlush ==
    /\ parserPc = "loop"
    /\ ~(tokenIndex < Len(parserTokens))
    /\ LET p == StatementBoundary(ParserState, _int, _intLit)
       IN  SetParserState([p EXCEPT !.pc = IF p.pc = "failed" THEN "failed"
                                           ELSE "done"])
    /\ UNCHANGED <<parserTokens, tokenIndex, tree>>
    /\ UNCHANGED <<tokenizerVars, fnVars, nodeVars>>

\* The loop has run out of tokens: parseTree returns.
ParseFinish ==
    /\ parserPc = "loop"
    /\ ~(tokenIndex < Len(parserTokens))
    /\ parserPc' = "done"
    /\ UNCHANGED <<parserTokens, tokenIndex, operandStack, expressionStack,
                   head, parserError, tree>>
    /\ UNCHANGED <<tokenizerVars, fnVars, nodeVars>>

\* Parser::getTree, callable once the constructor has returned: a throw
\* out of parseTree leaves the constructor, and no Parser object exists.
getTree ==
    /\ parserPc = "done"
    /\ tree' = <<head>>
    /\ UNCHANGED <<parserTokens, tokenIndex, operandStack, expressionStack,
                   head, parserPc, parserError>>
    /\ UNCHANGED <<tokenizerVars, fnVars, nodeVars>>

ParserNext ==
    \/ ParseSkip
    \/ ParseNewline
    \/ ParseOperand
    \/ ParseOperator
    \/ ParseNoAction
    \/ ParseFinish
    \/ getTree

\* parseTree run from state p at token k + 1 to its end, every read of an
\* unset subtype code returning u: the final state and the number of
\* tokens processed before the end or the throw.
RECURSIVE ParseFrom(_, _, _, _)
ParseFrom(p, ts, k, u) ==
    IF ~(k < Len(ts)) THEN <<[p EXCEPT !.pc = "done"], k>>
    ELSE LET q == ParseBody(p, ts[k + 1], u, u)
         IN  IF q.pc = "failed" THEN <<q, k>> ELSE ParseFrom(q, ts, k + 1, u)

\* Parser(ts): a fresh root, fresh empty stacks, and the loop over ts.
parseTree(ts, u) == ParseFrom(ParserStart, ts, 0, u)

(***************************************************************************)
(* Calls of the pure member functions                                      *)
(***************************************************************************)
CallParseCurrentToken ==
    /\ fnCall[1] = "parseCurrentToken"
    /\ fnResult = <<>>
    /\ fnResult' = <<parseCurrentToken(fnCall[2])>>
    /\ UNCHANGED <<fnCall, tokenizerVars, parserVars, nodeVars>>

CallIsValidKeywordLiteralPair ==
    /\ fnCall[1] = "isValidKeywordLiteralPair"
    /\ fnResult = <<>>
    /\ fnResult' = <<isValidKeywordLiteralPair(fnCall[2][1], fnCall[2][2])>>
    /\ UNCHANGED <<fnCall, tokenizerVars, parserVars, nodeVars>>

CallGetPriority ==
    /\ fnCall[1] = "getPriority"
    /\ fnResult = <<>>
    /\ fnResult' = <<getPriority(fnCall[2])>>
    /\ UNCHANGED <<fnCall, tokenizerVars, parserVars, nodeVars>>

CallGetAssociativity ==
    /\ fnCall[1] = "getAssociativity"
    /\ fnResult = <<>>
    /\ fnResult' = <<getAssociativity(fnCall[2])>>
    /\ UNCHANGED <<fnCall, tokenizerVars, parserVars, nodeVars>>

FnNext ==
    \/ CallParseCurrentToken
    \/ CallIsValidKeywordLiteralPair
    \/ CallGetPriority
    \/ CallGetAssociativity

(***************************************************************************)
(* Inputs                                                                  *)
(***************************************************************************)
\* All sequences over `alphabet' of length at most n.
Strings(alphabet, n) == UNION {[1..m -> alphabet] : m \in 0..n}

\* Bounds of the inputs.
MaxFree == 3
MaxBody == 3
MaxComment == 2
MaxRest == 1
MaxText == 3
MaxTokens == 4
MaxStatements == 2
MaxStringItems == 2
MaxLines == 2
MaxPipelineFree == 2

ScanAlphabet == {"a", "1", ".", "=", "@", "n", SP, TAB, NL, HASH, DQ, SQ, BSL}

T_int == <<"i", "n", "t">>
T_float == <<"f", "l", "o", "a", "t">>
T_bool == <<"b", "o", "o", "l">>

\* A line `T id = lit' with single spaces, ended by one newline.
StatementLine(T, id, lit) == T \o <<SP>> \o id \o <<SP, "=", SP>> \o lit \o <<NL>>

StatementLines ==
    {StatementLine(T, id, lit) :
        T \in {T_int, T_float, T_bool},
        id \in {<<"x">>, <<"_", "y", "1">>},
        lit \in {<<"5">>, <<"1", ".", "5">>, <<"4", "2">>}}

\* A character literal: a body between two single quotes.
CharLiteralSource(body) == <<SQ>> \o body \o <<SQ>>

CharLiteralSources ==
    {CharLiteralSource(body) : body \in Strings({"a", "n", BSL}, MaxBody)}

\* A comment line `#body' ended by a newline, and the text after it.
CommentSource(body, rest) == <<HASH>> \o body \o <<NL>> \o rest

CommentBodies == Strings({"a", SP, HASH, DQ, BSL}, MaxComment)

CommentRests ==
    Strings(ScanAlphabet, MaxRest) \cup {StatementLine(T_int, <<"y">>, <<"1">>)}

CommentSources ==
    {CommentSource(body, rest) : body \in CommentBodies, rest \in CommentRests}

ScanInputs ==
    Strings(ScanAlphabet, MaxFree) \cup StatementLines \cup CharLiteralSources
        \cup CommentSources

\* The texts parseCurrentToken is called on.
Spellings(table) == {table[n][1] : n \in 1..Len(table)}

ClassifyInputs ==
    Strings({"1", "7", ".", "a", "_", "*", "=", "@"}, MaxText)
        \cup Spellings(KeywordSpellings) \cup Spellings(OperatorSpellings)
        \cup Spellings(DelimiterSpellings)

PairInputs == (_if.._bool) \X (_intLit.._charLit)

\* The tokens getPriority and getAssociativity are called on: every
\* operator, keyword, literal kind, delimiter and whitespace, a comment, an
\* identifier and the expression token.
TokenInputs ==
    {OperatorToken(o) : o \in _add.._assPow}
        \cup {KeyWordToken(k) : k \in _if.._bool}
        \cup {LiteralToken(l, <<"5">>) : l \in _intLit.._charLit}
        \cup {DelimiterToken(d) : d \in _bracketOpen.._sqClose}
        \cup {WhiteSpaceToken(w) : w \in _space.._newLine}
        \cup {CommentToken(<<"c">>), IdentifierToken(<<"x">>), ExpressionToken}

\* Parser inputs.
SpaceToken == WhiteSpaceToken(_space)
TabToken == WhiteSpaceToken(_tab)
NewLineToken == WhiteSpaceToken(_newLine)

DataTypes == {_int, _float, _string, _char, _bool}

Literals ==
    {LiteralToken(_intLit, <<"5">>), LiteralToken(_floatLit, <<"1", ".", "5">>),
     LiteralToken(_stringLit, <<"5">>), LiteralToken(_charLit, <<"c">>)}

ParseAlphabet ==
    {KeyWordToken(_int), KeyWordToken(_if), IdentifierToken(<<"x">>),
     LiteralToken(_intLit, <<"5">>), LiteralToken(_stringLit, <<"5">>),
     OperatorToken(_ass), OperatorToken(_assAdd), OperatorToken(_add),
     DelimiterToken(_bracketOpen), CommentToken(<<"c">>),
     SpaceToken, NewLineToken}

\* [Keyword(T), Identifier(v), Operator(assign), Literal, newline]
Statement(T, v, lit) ==
    <<KeyWordToken(T), IdentifierToken(v), OperatorToken(_ass), lit, NewLineToken>>

Blanks == {<<>>, <<SpaceToken>>, <<TabToken>>}

\* A statement with blanks g[1..5] put before each of its five tokens.
Interleaved(st, g) ==
    g[1] \o <<st[1]>> \o g[2] \o <<st[2]>> \o g[3] \o <<st[3]>>
         \o g[4] \o <<st[4]>> \o g[5] \o <<st[5]>>

Statements ==
    {Statement(T, v, lit) : T \in DataTypes, v \in {<<"x">>}, lit \in Literals}

InterleavedStatements ==
    {Interleaved(st, g) : st \in Statements, g \in [1..5 -> Blanks]}

\* The concatenation of a sequence of token sequences.
RECURSIVE Concat(_)
Concat(ss) == IF ss = <<>> THEN <<>> ELSE Head(ss) \o Concat(Tail(ss))

Programs == {Concat(ss) : ss \in Strings(Statements, MaxStatements)}

\* What may stand between the quotes of a string literal: a plain
\* character, or a backslash and one of the ten characters it escapes.
StringItems ==
    {<<"a">>, <<SP>>, <<TAB>>, <<HASH>>, <<SQ>>}
        \cup {<<BSL, c>> : c \in {"n", "t", "r", "b", "v", "f", "0", BSL, SQ, DQ}}

\* Token text pending when the opening quote is read.
PendingTexts == {<<>>, <<"a">>, <<"1", "a">>}

\* pending text, an opening quote, the items and the closing quote.
StringLiteralSource(pending, items) ==
    pending \o <<DQ>> \o Concat(items) \o <<DQ>>

StringLiteralSources ==
    {StringLiteralSource(pending, items) :
        pending \in PendingTexts, items \in Strings(StringItems, MaxStringItems)}

\* The tokens the parser pushes on the operand stack.
OperandTokens ==
    {KeyWordToken(_int), IdentifierToken(<<"x">>),
     LiteralToken(_intLit, <<"5">>), LiteralToken(_stringLit, <<"5">>)}

\* A line of three operands of any kind around an assignment operator.
OperandLines ==
    {<<a, b, OperatorToken(op), c, NewLineToken>> :
        a \in OperandTokens, b \in OperandTokens, c \in OperandTokens,
        op \in {_ass, _assAdd, _assPow}}

\* A statement broken by a newline after its first n tokens.
SplitStatement(st, n) ==
    SubSeq(st, 1, n) \o <<NewLineToken>> \o SubSeq(st, n + 1, Len(st))

SplitStatements ==
    {SplitStatement(st, n) : st \in Statements, n \in 1..3}

\* Tokens the loop of parseTree has no push for.
InertTokens ==
    {OperatorToken(_add), OperatorToken(_eq), KeyWordToken(_if),
     KeyWordToken(_return), DelimiterToken(_bracketOpen),
     DelimiterToken(_sqClose), CommentToken(<<"c">>), SpaceToken, TabToken}

\* A statement with one such token put after its first n tokens.
PaddedStatement(st, n, t) ==
    SubSeq(st, 1, n) \o <<t>> \o SubSeq(st, n + 1, Len(st))

PaddedStatements ==
    {PaddedStatement(st, n, t) : st \in Statements, n \in 0..5, t \in InertTokens}

\* A statement with a comment and a space or tab put among its tokens.
CommentedStatements ==
    {PaddedStatement(PaddedStatement(st, n, CommentToken(<<"c">>)), m, t) :
        st \in Statements, n \in 0..5, m \in 0..6, t \in {SpaceToken, TabToken}}

ParseInputs ==
    Strings(ParseAlphabet, MaxTokens) \cup InterleavedStatements \cup Programs
        \cup OperandLines \cup SplitStatements
        \cup {l \o st : l \in OperandLines, st \in Statements}
        \cup PaddedStatements \cup CommentedStatements

(***************************************************************************)
(* Specifications                                                          *)
(***************************************************************************)
TokenizerIdle ==
    /\ sourceCode = <<>>
    /\ i = 0
    /\ currentToken = <<>>
    /\ tokens = <<>>
    /\ escapeMode = FALSE
    /\ commentMode = FALSE
    /\ stringMode = FALSE
    /\ charMode = FALSE
    /\ tokenizerPc = "idle"
    /\ tokenizerError = "none"

ParserIdle ==
    /\ parserTokens = <<>>
    /\ tokenIndex = 0
    /\ operandStack = <<>>
    /\ expressionStack = <<>>
    /\ head = ExpressionNode(ExpressionToken)
    /\ parserPc = "idle"
    /\ parserError = "none"
    /\ tree = <<>>

FnIdle == fnCall = <<"none">> /\ fnResult = <<>>

NodeIdle == heap = <<>> /\ childList = <<>> /\ nodeCall = <<"none">>

\* Tokenizer(fileName) on a file that holds sourceCode.
InitScan ==
    /\ sourceCode \in ScanInputs \cup StringLiteralSources
    /\ i = 0
    /\ currentToken = TokenizerStart.currentToken
    /\ tokens = TokenizerStart.tokens
    /\ escapeMode = TokenizerStart.escapeMode
    /\ commentMode = TokenizerStart.commentMode
    /\ stringMode = TokenizerStart.stringMode
    /\ charMode = TokenizerStart.charMode
    /\ tokenizerPc = TokenizerStart.pc
    /\ tokenizerError = TokenizerStart.error
    /\ ParserIdle
    /\ FnIdle
    /\ NodeIdle

SpecScan == InitScan /\ [][TokenizerNext]_vars

\* Parser(tokens) on any token vector.
InitParse ==
    /\ parserTokens \in ParseInputs
    /\ tokenIndex = 0
    /\ operandStack = ParserStart.operandStack
    /\ expressionStack = ParserStart.expressionStack
    /\ head = ParserStart.head
    /\ parserPc = ParserStart.pc
    /\ parserError = ParserStart.error
    /\ tree = <<>>
    /\ TokenizerIdle
    /\ FnIdle
    /\ NodeIdle

SpecParse == InitParse /\ [][ParserNext]_vars

\* One call of a pure function on one argument.
InitFn ==
    /\ fnCall \in ({"parseCurrentToken"} \X ClassifyInputs)
                     \cup ({"isValidKeywordLiteralPair"} \X PairInputs)
                     \cup ({"getPriority", "getAssociativity"} \X TokenInputs)
    /\ fnResult = <<>>
    /\ TokenizerIdle
    /\ ParserIdle
    /\ NodeIdle

SpecFn == InitFn /\ [][FnNext]_vars

\* The lines `T id = lit' of matching type and literal kind: the keyword
\* text and its code, the name, the literal as written, its kind and text.
T_char == <<"c", "h", "a", "r">>
T_string == <<"s", "t", "r", "i", "n", "g">>

DeclarationLiterals ==
    {<<T_int, _int, <<"5">>, _intLit, <<"5">>>>,
     <<T_int, _int, <<"4", "2">>, _intLit, <<"4", "2">>>>,
     <<T_float, _float, <<"1", ".", "5">>, _floatLit, <<"1", ".", "5">>>>,
     <<T_char, _char, <<SQ, "c", SQ>>, _charLit, <<"c">>>>,
     <<T_string, _string, <<DQ, "s", DQ>>, _stringLit, <<"s">>>>,
     <<T_string, _string, <<DQ, "a", SP, "b", DQ>>, _stringLit, <<"a", SP, "b">>>>}

Declarations ==
    {[type |-> d[1], keyword |-> d[2], name |-> id, written |-> d[3],
      kind |-> d[4], text |-> d[5]] :
        d \in DeclarationLiterals, id \in {<<"x">>, <<"_", "y", "1">>}}

DeclarationSource(ds) ==
    Concat([n \in 1..Len(ds) |->
               StatementLine(ds[n].type, ds[n].name, ds[n].written)])

DeclarationSources ==
    {DeclarationSource(ds) : ds \in Strings(Declarations, MaxLines)}

\* The source files main is run on: declaration lines, and short free text.
PipelineInputs ==
    DeclarationSources \cup Strings(ScanAlphabet \cup {"("}, MaxPipelineFree)

\* main: Tokenizer tokenizer(fileName);
InitPipeline ==
    /\ sourceCode \in PipelineInputs
    /\ i = 0
    /\ currentToken = TokenizerStart.currentToken
    /\ tokens = TokenizerStart.tokens
    /\ escapeMode = TokenizerStart.escapeMode
    /\ commentMode = TokenizerStart.commentMode
    /\ stringMode = TokenizerStart.stringMode
    /\ charMode = TokenizerStart.charMode
    /\ tokenizerPc = TokenizerStart.pc
    /\ tokenizerError = TokenizerStart.error
    /\ ParserIdle
    /\ FnIdle
    /\ NodeIdle

\* main: Parser parser(tokenizer.getTokens()); reached only when the
\* Tokenizer constructor has returned.
RunParser ==
    /\ tokenizerPc = "done"
    /\ parserPc = "idle"
    /\ parserTokens' = tokens
    /\ tokenIndex' = 0
    /\ operandStack' = ParserStart.operandStack
    /\ expressionStack' = ParserStart.expressionStack
    /\ head' = ParserStart.head
    /\ parserPc' = ParserStart.pc
    /\ parserError' = ParserStart.error
    /\ tree' = <<>>
    /\ UNCHANGED <<tokenizerVars, fnVars, nodeVars>>

Next ==
    \/ TokenizerNext
    \/ RunParser
    \/ ParserNext

Spec == InitPipeline /\ [][Next]_vars

\* Two nodes constructed by ExpressionNode(token), and an empty vector.
InitNode ==
    /\ heap = <<ExpressionNode(OperatorToken(_ass)),
                ExpressionNode(IdentifierToken(<<"x">>))>>
    /\ childList = <<>>
    /\ nodeCall = <<"none">>
    /\ TokenizerIdle
    /\ ParserIdle
    /\ FnIdle

SpecNode == InitNode /\ [][NodeNext]_vars

(***************************************************************************)
(* Properties                                                              *)
(***************************************************************************)
LineTypes == {<<T_int, _int>>, <<T_float, _float>>, <<T_bool, _bool>>}

LineNames == {<<"x">>, <<"_", "y", "1">>}

LineLiterals ==
    {<<<<"5">>, _intLit>>, <<<<"4", "2">>, _intLit>>,
     <<<<"1", ".", "5">>, _floatLit>>}

\* C1: scanning a line `T id = lit' with single spaces and one final
\* newline returns exactly eight tokens: the keyword, a space, the
\* identifier, a space, the assign operator, a space, the literal and one
\* Whitespace(newline), and nothing else.
C1_StatementLineTokens ==
    \A ty \in LineTypes, id \in LineNames, lit \in LineLiterals :
        (/\ tokenizerPc \in {"done", "failed"}
         /\ sourceCode = StatementLine(ty[1], id, lit[1]))
        => /\ tokenizerPc = "done"
           /\ tokens = <<KeyWordToken(ty[2]), SpaceToken, IdentifierToken(id),
                         SpaceToken, OperatorToken(_ass), SpaceToken,
                         LiteralToken(lit[2], lit[1]), NewLineToken>>

\* The exceptions parseCurrentToken throws on a text it cannot classify.
ClassificationErrors ==
    {"Invalid number(float/int) literal.",
     "Invalid number(float/int) literal. Only one or zero . is permitted",
     "Identifiers must always start with a _ or an alphabet",
     "The given token is invalid"}

\* C5: a classification failure of pending token text never aborts the
\* scan, whichever character ends the text: the scan never fails with an
\* exception of parseCurrentToken.
C5_ClassificationNeverAborts ==
    tokenizerPc = "failed" => tokenizerError \notin ClassificationErrors

\* C6: the scan is single pass and terminates: every iteration of the loop
\* reads one character and moves the index forward by exactly one (or
\* fails), the index never passes the length of the input, and while the
\* scan has neither returned nor failed a step is always possible, so it
\* ends within Len(sourceCode) iterations and one final step.
C6_SinglePassTerminates ==
    /\ [](/\ i <= Len(sourceCode)
          /\ (tokenizerPc = "loop" => ENABLED TokenizerNext))
    /\ [][/\ (tokenizerPc = "loop" /\ i < Len(sourceCode))
             => \/ (tokenizerPc' = "loop" /\ i' = i + 1)
                \/ (tokenizerPc' = "failed" /\ i' = i)
          /\ (tokenizerPc = "loop" /\ i = Len(sourceCode))
             => (tokenizerPc' = "done" /\ i' = i)
          /\ tokenizerPc \in {"done", "failed"} => tokenizerPc' = tokenizerPc]_vars

\* C6 witness: the ten characters of `int x = 5' and its newline have all
\* been read, once each, and the scan has returned.
C6_Witness ==
    /\ sourceCode = StatementLine(T_int, <<"x">>, <<"5">>)
    /\ tokenizerPc = "done"
    /\ i = 10

\* C7: every Char-literal token of the output carries a text of exactly
\* one character (a closing quote on any other text fails the scan).
C7_CharLiteralHasOneCharacter ==
    \A n \in 1..Len(tokens) :
        (tokens[n].tokenType = _literal /\ tokens[n].token = _charLit)
        => Len(tokens[n].value) = 1

\* C8: scanning `#body', a newline and then `rest' ends as the scan of
\* `rest' alone ends, and returns one Comment token with text body, one
\* Whitespace(newline) and then exactly the tokens of `rest'.
C8_CommentLine ==
    \A body \in CommentBodies, rest \in CommentRests :
        (/\ tokenizerPc \in {"done", "failed"}
         /\ sourceCode = CommentSource(body, rest))
        => /\ tokenizerPc = _getTokens(rest).pc
           /\ tokenizerPc = "done"
              => tokens = <<CommentToken(body), NewLineToken>>
                              \o _getTokens(rest).tokens

\* The blanks of a token sequence dropped.
NonBlank(ts) ==
    SelectSeq(ts, LAMBDA t : ~(t.tokenType = _whitespace
                               /\ t.token \in {_space, _tab}))

\* The compatible (data type, literal kind) pairs.
CompatibilityTable ==
    {<<_int, _intLit>>, <<_char, _charLit>>, <<_string, _stringLit>>,
     <<_float, _floatLit>>}

\* ts ends with [Keyword(T), Identifier, Operator(assign), Literal]
\* for a data type T.
EndsWithDeclaration(ts) ==
    LET n == Len(ts)
    IN  /\ n >= 4
        /\ ts[n - 3].tokenType = _keyWord
        /\ ts[n - 3].token \in DataTypes
        /\ ts[n - 2].tokenType = _identifier
        /\ ts[n - 1] = OperatorToken(_ass)
        /\ ts[n].tokenType = _literal

\* C2: when the input is [Keyword(T), Identifier(v), Operator(assign),
\* Literal(L, text), newline], with any space and tab tokens between them,
\* and (T, L) is a compatible pair, build returns and the root has exactly
\* one child: the assign node with children [Identifier(v), Literal(L, text)].
C2_StatementBuildsOneChild ==
    LET nb == NonBlank(parserTokens)
    IN  (/\ parserPc \in {"done", "failed"}
         /\ Len(nb) = 5
         /\ EndsWithDeclaration(SubSeq(nb, 1, 4))
         /\ nb[5] = NewLineToken
         /\ <<nb[1].token, nb[4].token>> \in CompatibilityTable)
        => /\ parserPc = "done"
           /\ head.children =
                  << [token |-> OperatorToken(_ass),
                      children |-> << [token |-> nb[2], children |-> <<>>],
                                      [token |-> nb[4], children |-> <<>>] >>] >>

\* C2 witness: `string x = "5"' with a tab before the name and a space
\* before the newline has been built into one node.
C2_Witness ==
    /\ parserTokens =
           <<KeyWordToken(_string), TabToken, IdentifierToken(<<"x">>),
             OperatorToken(_ass), LiteralToken(_stringLit, <<"5">>),
             SpaceToken, NewLineToken>>
    /\ parserPc = "done"
    /\ Len(head.children) = 1

\* C3: when the newline that ends [Keyword(T), Identifier,
\* Operator(assign), Literal(L)] is processed and (T, L), T a data type, is
\* not a compatible pair, build fails with "Invalid assignment" and the
\* root's child list is what it was before that newline.
C3_MismatchFailsWithoutChild ==
    [][(/\ parserPc = "loop"
        /\ tokenIndex < Len(parserTokens)
        /\ parserTokens[tokenIndex + 1] = NewLineToken
        /\ LET nb == NonBlank(SubSeq(parserTokens, 1, tokenIndex))
           IN  /\ EndsWithDeclaration(nb)
               /\ <<nb[Len(nb) - 3].token, nb[Len(nb)].token>>
                      \notin CompatibilityTable)
       => /\ parserPc' = "failed"
          /\ parserError' = "Invalid assignment"
          /\ head' = head]_vars

\* C3 witness: `int x = 5' was built, then `int x = "5"' failed and the
\* root still holds the one child.
C3_Witness ==
    /\ parserTokens =
           Statement(_int, <<"x">>, LiteralToken(_intLit, <<"5">>))
               \o Statement(_int, <<"x">>, LiteralToken(_stringLit, <<"5">>))
    /\ parserPc = "failed"
    /\ parserError = "Invalid assignment"
    /\ Len(head.children) = 1

\* C4: isValidKeywordLiteralPair returns true for exactly the four pairs
\* (int, intLit), (char, charLit), (string, stringLit), (float, floatLit)
\* and false for every other keyword and literal kind, bool with any
\* literal and float with an int literal among them.
C4_ExactlyFourPairs ==
    (fnCall[1] = "isValidKeywordLiteralPair" /\ fnResult # <<>>)
    => (fnResult[1] <=> fnCall[2] \in CompatibilityTable)

\* C4 witness: float with an int literal has been judged invalid.
C4_Witness ==
    /\ fnCall = <<"isValidKeywordLiteralPair", <<_float, _intLit>>>>
    /\ fnResult = <<FALSE>>

\* The operator lexicon: each spelling and the operator it names.
OperatorLexicon ==
    {<<<<"+">>, _add>>, <<<<"-">>, _sub>>, <<<<"*">>, _mul>>,
     <<<<"/">>, _div>>, <<<<"%">>, _mod>>, <<<<"*", "*">>, _pow>>,
     <<<<"a", "n", "d">>, _and>>, <<<<"&", "&">>, _and>>,
     <<<<"o", "r">>, _or>>, <<<<"|", "|">>, _or>>,
     <<<<"n", "o", "t">>, _not>>, <<<<"!">>, _not>>,
     <<<<"x", "o", "r">>, _xor>>, <<<<"^">>, _xor>>,
     <<<<"=", "=">>, _eq>>, <<<<"!", "=">>, _neq>>,
     <<<<">", "=">>, _gte>>, <<<<"<", "=">>, _lte>>,
     <<<<">">>, _gt>>, <<<<"<">>, _lt>>, <<<<"=">>, _ass>>,
     <<<<"+", "=">>, _assAdd>>, <<<<"-", "=">>, _assSub>>,
     <<<<"*", "=">>, _assMul>>, <<<<"/", "=">>, _assDiv>>,
     <<<<"%", "=">>, _assMod>>, <<<<"*", "*", "=">>, _assPow>>}

\* C9: parseCurrentToken on a whole operator spelling returns the one
\* Operator token of that spelling, never the operator of a proper prefix:
\* `**' is Power, `**=' power-assign, `*=' multiply-assign, `==' equality.
C9_OperatorSpellingExact ==
    \A e \in OperatorLexicon :
        (fnCall = <<"parseCurrentToken", e[1]>> /\ fnResult # <<>>)
        => fnResult[1] = Returned(OperatorToken(e[2]))

\* C9 witness: `**' has been classified as Power.
C9_Witness ==
    /\ fnCall = <<"parseCurrentToken", <<"*", "*">>>>
    /\ fnResult = <<Returned(OperatorToken(_pow))>>

OnlyDigitsAndDots(text) == \A n \in 1..Len(text) : text[n] \in Digit \cup {"."}

Dots(text) == Cardinality({n \in 1..Len(text) : text[n] = "."})

\* C10 as stated: every non-empty text made only of digits and at most
\* one `.' is classified as an Int literal (no dot) or a Float literal
\* (one dot) carrying that text.
C10_DigitsAndDotAlwaysNumber ==
    (/\ fnCall[1] = "parseCurrentToken"
     /\ fnResult # <<>>
     /\ fnCall[2] # <<>>
     /\ OnlyDigitsAndDots(fnCall[2])
     /\ Dots(fnCall[2]) <= 1)
    => fnResult[1] =
          Returned(LiteralToken(IF Dots(fnCall[2]) = 0 THEN _intLit
                                ELSE _floatLit, fnCall[2]))

\* C10 amended: a text that begins with a digit is classified as an Int
\* literal (only digits) or a Float literal (digits and exactly one `.')
\* carrying that text, and any other text that begins with a digit is
\* refused with the numeric-literal error.
C10_LeadingDigitNumber ==
    (/\ fnCall[1] = "parseCurrentToken"
     /\ fnResult # <<>>
     /\ fnCall[2] # <<>>
     /\ fnCall[2][1] \in Digit)
    => IF OnlyDigitsAndDots(fnCall[2]) /\ Dots(fnCall[2]) <= 1
       THEN fnResult[1] =
               Returned(LiteralToken(IF Dots(fnCall[2]) = 0 THEN _intLit
                                     ELSE _floatLit, fnCall[2]))
       ELSE /\ ~fnResult[1].ok
            /\ fnResult[1].err \in
                  {"Invalid number(float/int) literal.",
                   "Invalid number(float/int) literal. Only one or zero . is permitted"}

\* C10 witness: `1.7' has been classified as a Float literal.
C10_Witness ==
    /\ fnCall = <<"parseCurrentToken", <<"1", ".", "7">>>>
    /\ fnResult = <<Returned(LiteralToken(_floatLit, <<"1", ".", "7">>))>>

\* A text that starts with `_' or a letter and holds only `_', letters
\* and digits.
IdentifierShaped(text) ==
    /\ text # <<>>
    /\ text[1] \in Alpha \cup {"_"}
    /\ \A n \in 1..Len(text) : text[n] \in Alpha \cup Digit \cup {"_"}

\* The words of the language that have the shape of an identifier.
ReservedWords ==
    {<<"i", "n", "t">>, <<"c", "h", "a", "r">>, <<"f", "l", "o", "a", "t">>,
     <<"s", "t", "r", "i", "n", "g">>, <<"s", "t", "r">>,
     <<"b", "o", "o", "l">>, <<"i", "f">>, <<"e", "l", "i", "f">>,
     <<"e", "l", "s", "e">>, <<"f", "o", "r">>, <<"w", "h", "i", "l", "e">>,
     <<"d", "o">>, <<"r", "e", "t", "u", "r", "n">>,
     <<"b", "r", "e", "a", "k">>,
     <<"c", "o", "n", "t", "i", "n", "u", "e">>,
     <<"a", "n", "d">>, <<"o", "r">>, <<"n", "o", "t">>, <<"x", "o", "r">>}

\* C11 as stated: every text that starts with `_' or a letter and holds
\* only `_', letters and digits is classified as an Identifier token
\* carrying that text.
C11_IdentifierShapedIsIdentifier ==
    (/\ fnCall[1] = "parseCurrentToken"
     /\ fnResult # <<>>
     /\ IdentifierShaped(fnCall[2]))
    => fnResult[1] = Returned(IdentifierToken(fnCall[2]))

\* C11 amended: such a text is classified as an Identifier token carrying
\* that text unless it is a reserved word (a keyword spelling or one of
\* and, or, not, xor), and a reserved word is classified as a Keyword or
\* an Operator token, never as an Identifier.
C11_IdentifierUnlessReserved ==
    (/\ fnCall[1] = "parseCurrentToken"
     /\ fnResult # <<>>
     /\ IdentifierShaped(fnCall[2]))
    => IF fnCall[2] \in ReservedWords
       THEN /\ fnResult[1].ok
            /\ fnResult[1].tok.tokenType \in {_keyWord, _operator}
       ELSE fnResult[1] = Returned(IdentifierToken(fnCall[2]))

\* C11 witness: `_a1' has been classified as an Identifier.
C11_Witness ==
    /\ fnCall = <<"parseCurrentToken", <<"_", "a", "1">>>>
    /\ fnResult = <<Returned(IdentifierToken(<<"_", "a", "1">>))>>

\* The precedence table: each operator subtype and its priority.
PriorityTable ==
    {<<_pow, 80>>, <<_not, 70>>, <<_mul, 60>>, <<_div, 60>>, <<_mod, 60>>,
     <<_add, 50>>, <<_sub, 50>>, <<_gt, 40>>, <<_lt, 40>>, <<_gte, 40>>,
     <<_lte, 40>>, <<_eq, 35>>, <<_neq, 35>>, <<_and, 30>>, <<_xor, 25>>,
     <<_or, 20>>, <<_ass, 10>>, <<_assAdd, 10>>, <<_assSub, 10>>,
     <<_assMul, 10>>, <<_assDiv, 10>>, <<_assMod, 10>>, <<_assPow, 10>>}

\* C12: getPriority returns 0 for every token that is not an operator
\* and, for an operator, the entry of the precedence table (Power 80, Not
\* 70, * / % 60, + - 50, > < >= <= 40, == != 35, And 30, Xor 25, Or 20,
\* the seven assignments 10); the table covers all 23 operator subtypes,
\* so no operator has priority 0.
C12_PriorityTable ==
    /\ {e[1] : e \in PriorityTable} = _add.._assPow
    /\ Cardinality(PriorityTable) = 23
    /\ (fnCall[1] = "getPriority" /\ fnResult # <<>>)
       => IF fnCall[2].tokenType = _operator
          THEN /\ <<fnCall[2].token, fnResult[1]>> \in PriorityTable
               /\ fnResult[1] # 0
          ELSE fnResult[1] = 0

\* C12 witness: the priority of logical not has been read as 70.
C12_Witness ==
    /\ fnCall = <<"getPriority", OperatorToken(_not)>>
    /\ fnResult = <<70>>

\* C13: getAssociativity returns Right exactly for Power, Not and the
\* seven assignments, Left for the other fourteen operators and
\* Non-associative for every token that is not an operator; no operator is
\* Non-associative.
C13_Associativity ==
    (fnCall[1] = "getAssociativity" /\ fnResult # <<>>)
    => IF fnCall[2].tokenType # _operator THEN fnResult[1] = NonAssoc
       ELSE IF fnCall[2].token \in {_pow, _not, _ass, _assAdd, _assSub,
                                    _assMul, _assDiv, _assMod, _assPow}
       THEN fnResult[1] = RightAssoc
       ELSE /\ fnResult[1] = LeftAssoc
            /\ fnCall[2].token \in {_mul, _div, _mod, _add, _sub, _gt, _lt,
                                    _gte, _lte, _eq, _neq, _and, _xor, _or}

\* C13 witness: power-assign has been found right-associative.
C13_Witness ==
    /\ fnCall = <<"getAssociativity", OperatorToken(_assPow)>>
    /\ fnResult = <<RightAssoc>>

\* The newline tokens among the first n tokens of the input.
NewlinesIn(n) ==
    Cardinality({k \in 1..n : parserTokens[k] = NewLineToken})

\* C14: after a build call that returns, every child of the root is an
\* Operator node with exactly two children, the first wrapping an
\* Identifier token and the second a Literal token, whatever the input
\* token sequence.
C14_ChildrenAreNameAndLiteral ==
    parserPc = "done"
    => \A n \in 1..Len(head.children) :
          /\ head.children[n].token.tokenType = _operator
          /\ Len(head.children[n].children) = 2
          /\ head.children[n].children[1].token.tokenType = _identifier
          /\ head.children[n].children[2].token.tokenType = _literal

\* C15: right after a newline token is processed both stacks are empty,
\* whether or not a statement was assembled on it.
C15_StacksEmptyAfterNewline ==
    [][(/\ parserPc = "loop"
        /\ tokenIndex < Len(parserTokens)
        /\ parserTokens[tokenIndex + 1] = NewLineToken
        /\ parserPc' = "loop")
       => (operandStack' = <<>> /\ expressionStack' = <<>>)]_vars

\* C16: on a newline token, when the operand stack holds at least three
\* entries and the top of the expression stack is any of the seven
\* assignment operators, the operator and the three operands are popped
\* and a statement is assembled from them: the step either attaches the
\* operator node with children [name, literal] to the root or fails the
\* type check.
C16_AnyAssignmentAssembles ==
    [][(/\ parserPc = "loop"
        /\ tokenIndex < Len(parserTokens)
        /\ parserTokens[tokenIndex + 1] = NewLineToken
        /\ Len(operandStack) >= 3
        /\ Len(expressionStack) >= 1
        /\ expressionStack[Len(expressionStack)].token.tokenType = _operator
        /\ expressionStack[Len(expressionStack)].token.token
              \in {_ass, _assAdd, _assSub, _assMul, _assDiv, _assMod, _assPow})
       => \/ parserPc' = "failed"
          \/ head'.children =
                Append(head.children,
                       [token |-> expressionStack[Len(expressionStack)].token,
                        children |-> <<operandStack[Len(operandStack) - 1],
                                       operandStack[Len(operandStack)]>>])]_vars

\* The seven assignment operators.
AssignmentForms ==
    {_ass, _assAdd, _assSub, _assMul, _assDiv, _assMod, _assPow}

\* No assignment operator is pending on the expression stack.
NoPendingAssignment ==
    \A n \in 1..Len(expressionStack) :
        ~(/\ expressionStack[n].token.tokenType = _operator
          /\ expressionStack[n].token.token \in AssignmentForms)

\* C17: a newline token processed when the operand stack holds fewer than
\* three entries, or when no assignment operator is pending on the
\* expression stack, is not an error and leaves the root's child list as
\* it was: the step neither fails nor changes the root.
C17_IncompleteLineIsNoError ==
    [][(/\ parserPc = "loop"
        /\ tokenIndex < Len(parserTokens)
        /\ parserTokens[tokenIndex + 1] = NewLineToken
        /\ (Len(operandStack) < 3 \/ NoPendingAssignment))
       => /\ parserPc' = "loop"
          /\ parserError' = "none"
          /\ tokenIndex' = tokenIndex + 1
          /\ head' = head]_vars

\* C17 witness: the newline after `int x' has been processed, nothing
\* failed and the root has no child.
C17_Witness ==
    /\ parserTokens =
           <<KeyWordToken(_int), IdentifierToken(<<"x">>), NewLineToken>>
    /\ tokenIndex = 3
    /\ parserPc = "loop"
    /\ parserError = "none"
    /\ head.children = <<>>

\* C18: there is no flush at the end of the input.  Only a step on a
\* newline token changes the root or fails: a step on any other token,
\* and the return at the end of the tokens, leave the root as it is and
\* raise no error; so the root never has more children than newline
\* tokens were processed, and an input without a newline token, a complete
\* `T id = lit' of any types included, returns a root without children.
C18_NoFinalFlush ==
    /\ [](/\ Len(head.children) <= NewlinesIn(tokenIndex)
          /\ (parserPc \in {"done", "failed"}
              /\ NewlinesIn(Len(parserTokens)) = 0)
             => (/\ parserPc = "done"
                 /\ parserError = "none"
                 /\ head.children = <<>>))
    /\ [][(/\ parserPc = "loop"
           /\ \/ tokenIndex = Len(parserTokens)
              \/ parserTokens[tokenIndex + 1] # NewLineToken)
          => /\ head' = head
             /\ parserPc' # "failed"
             /\ parserError' = parserError]_vars

\* C18 witness: `int x = "5"' without a newline has been built: the call
\* returned, with no child and no error.
C18_Witness ==
    /\ parserTokens =
           <<KeyWordToken(_int), IdentifierToken(<<"x">>), OperatorToken(_ass),
             LiteralToken(_stringLit, <<"5">>)>>
    /\ parserPc = "done"
    /\ parserError = "none"
    /\ head.children = <<>>

\* C19: build is deterministic: whatever a run of build on the token
\* sequence ends with (the tree, or the failure and the token it failed
\* at), any other run of build on the same sequence, from a fresh root and
\* fresh empty stacks, ends with the same.
C19_BuildDeterministic ==
    parserPc \in {"done", "failed"}
    => \A u \in Indeterminate :
          LET again == parseTree(parserTokens, u)
          IN  /\ again[1].pc = parserPc
              /\ again[1].error = parserError
              /\ again[1].head = head
              /\ again[2] = tokenIndex

\* C20: a type-compatibility failure is fatal for the whole build call:
\* once it has occurred the call has failed, no step of the parser is
\* possible any more (no later token is processed, no child is appended),
\* and no tree has been or can be handed to the caller.
C20_MismatchIsFatal ==
    /\ [](parserError = "Invalid assignment"
          => /\ parserPc = "failed"
             /\ ~ENABLED ParserNext
             /\ tree = <<>>)
    /\ [][parserError = "Invalid assignment"
          => /\ parserError' = "Invalid assignment"
             /\ tokenIndex' = tokenIndex
             /\ head' = head
             /\ tree' = tree]_vars

\* C20 witness: `float x = 1.5' was built, `bool x = 5' failed at its
\* newline, the tenth token; the caller holds no tree.
C20_Witness ==
    /\ parserTokens =
           Statement(_float, <<"x">>, LiteralToken(_floatLit, <<"1", ".", "5">>))
               \o Statement(_bool, <<"x">>, LiteralToken(_intLit, <<"5">>))
    /\ parserPc = "failed"
    /\ parserError = "Invalid assignment"
    /\ tokenIndex = 9
    /\ Len(head.children) = 1
    /\ tree = <<>>

\* The scan is about to read a character, c, outside Comment, String and
\* Char mode.
ReadsInNormalMode(c) ==
    /\ tokenizerPc = "loop"
    /\ i < Len(sourceCode)
    /\ sourceCode[i + 1] = c
    /\ ~(commentMode \/ stringMode \/ charMode)

\* C25: a space scanned outside Comment, String and Char mode while no
\* token text is pending emits just a Whitespace(space) token, leaves the
\* buffer empty and the scan goes on with the next character.
C25_SpaceWithoutPendingText ==
    [][(ReadsInNormalMode(SP) /\ ~escapeMode /\ currentToken = <<>>)
       => /\ tokenizerPc' = "loop"
          /\ i' = i + 1
          /\ tokens' = Append(tokens, SpaceToken)
          /\ currentToken' = <<>>]_vars

\* C26: after a raw newline character is scanned, in Normal, Comment,
\* String and Char mode alike, a Whitespace(newline) token has been
\* appended to the output and the buffer is empty when the next character
\* is read.
C26_NewlineEmitsAndClears ==
    [][(/\ tokenizerPc = "loop"
        /\ i < Len(sourceCode)
        /\ sourceCode[i + 1] = NL
        /\ ~escapeMode
        /\ tokenizerPc' = "loop")
       => /\ \E n \in (Len(tokens) + 1)..Len(tokens') : tokens'[n] = NewLineToken
          /\ SubSeq(tokens', 1, Len(tokens)) = tokens
          /\ currentToken' = <<>>]_vars

\* The characters that may follow a backslash.
EscapableCharacters == {"n", "t", "r", "b", "v", "f", "0", BSL, SQ, DQ}

\* C27: while escape is pending the character read is resolved by the
\* escape table before any other rule, in every mode: a character outside
\* the table fails the scan with the invalid-escape error, and after a
\* character of the table is handled escape is no longer pending.
C27_EscapeResolvedFirst ==
    [][(tokenizerPc = "loop" /\ i < Len(sourceCode) /\ escapeMode)
       => IF sourceCode[i + 1] \in EscapableCharacters
          THEN tokenizerPc' = "loop" /\ ~escapeMode'
          ELSE /\ tokenizerPc' = "failed"
               /\ tokenizerError' = "Invalid character after \\ (escape character)."]_vars

\* The character a backslash and c stand for.
DecodedEscape(c) ==
    CASE c = "n" -> NL
      [] c = "t" -> TAB
      [] c = "r" -> "<CR>"
      [] c = "b" -> "<BS>"
      [] c = "v" -> "<VT>"
      [] c = "f" -> "<FF>"
      [] c = "0" -> "<NUL>"
      [] c = BSL -> BSL
      [] c = SQ -> SQ
      [] c = DQ -> DQ

\* C28: inside a string literal a backslash is consumed without being
\* appended, and the character of the escape table that follows it appends
\* exactly its decoded character to the token text; an escaped `"' does
\* not close the string, no token is emitted, and afterwards the scanner
\* is in String mode with escape cleared.
C28_EscapeInsideString ==
    [][(tokenizerPc = "loop" /\ i < Len(sourceCode) /\ stringMode)
       => /\ (~escapeMode /\ sourceCode[i + 1] = BSL)
             => /\ tokenizerPc' = "loop"
                /\ escapeMode'
                /\ stringMode'
                /\ currentToken' = currentToken
                /\ tokens' = tokens
          /\ (escapeMode /\ sourceCode[i + 1] \in EscapableCharacters)
             => /\ tokenizerPc' = "loop"
                /\ ~escapeMode'
                /\ stringMode'
                /\ currentToken' =
                      Append(currentToken, DecodedEscape(sourceCode[i + 1]))
                /\ tokens' = tokens]_vars

\* C28 witness: `"\""' has been scanned into one String literal whose
\* text is the double quote.
C28_Witness ==
    /\ sourceCode = <<DQ, BSL, DQ, DQ>>
    /\ tokenizerPc = "done"
    /\ tokens = <<LiteralToken(_stringLit, <<DQ>>)>>

\* C29: in every state of the scan at most one of Comment, String and
\* Char mode is active.
C29_ModesExclusive ==
    /\ ~(commentMode /\ stringMode)
    /\ ~(commentMode /\ charMode)
    /\ ~(stringMode /\ charMode)

\* C29 witness: a `#' and a single quote have been read inside a string:
\* only String mode is active.
C29_Witness ==
    /\ sourceCode = <<DQ, HASH, SQ>>
    /\ i = 3
    /\ stringMode
    /\ ~commentMode
    /\ ~charMode

\* The text a string body stands for: every backslash and the character
\* after it replaced by the decoded character.
RECURSIVE Unescaped(_)
Unescaped(body) ==
    IF body = <<>> THEN <<>>
    ELSE IF body[1] = BSL
    THEN <<DecodedEscape(body[2])>> \o Unescaped(SubSeq(body, 3, Len(body)))
    ELSE <<body[1]>> \o Unescaped(Tail(body))

\* The position of the first double quote of a text.
OpeningQuote(text) ==
    CHOOSE n \in 1..Len(text) :
        text[n] = DQ /\ \A m \in 1..(n - 1) : text[m] # DQ

\* C30: for a string literal whose content has no raw newline and only
\* valid escapes, the scan emits no token and stays in String mode between
\* the quotes, whatever spaces, tabs, `#' and single quotes the content
\* holds, and at the closing quote has emitted exactly one token: the
\* String literal whose text is the escape-decoded content.  Text pending
\* before the opening quote is dropped without a token.
C30_StringLiteralOneToken ==
    sourceCode \in StringLiteralSources
    => LET open == OpeningQuote(sourceCode)
           body == SubSeq(sourceCode, open + 1, Len(sourceCode) - 1)
       IN  /\ tokenizerPc # "failed"
           /\ i < open => (tokens = <<>> /\ ~stringMode)
           /\ (open <= i /\ i < Len(sourceCode))
              => /\ tokens = <<>>
                 /\ stringMode
                 /\ ~commentMode
                 /\ ~charMode
           /\ i = Len(sourceCode)
              => /\ tokens = <<LiteralToken(_stringLit, Unescaped(body))>>
                 /\ currentToken = <<>>
                 /\ ~stringMode

\* C30 witness: `1a"#\n"' has been scanned: the pending text `1a' left
\* no token, and the one token is the String literal `#' and a newline.
C30_Witness ==
    /\ sourceCode = <<"1", "a", DQ, HASH, BSL, "n", DQ>>
    /\ tokenizerPc = "done"
    /\ tokens = <<LiteralToken(_stringLit, <<HASH, NL>>)>>

\* The root's children a sequence of declarations stands for: one assign
\* node per line, with children [Identifier(name), Literal(kind, text)].
DeclarationChildren(ds) ==
    [n \in 1..Len(ds) |->
        [token |-> OperatorToken(_ass),
         children |->
             << [token |-> IdentifierToken(ds[n].name), children |-> <<>>],
                [token |-> LiteralToken(ds[n].kind, ds[n].text),
                 children |-> <<>>] >>]]

\* Each source of declaration lines with the children it stands for.
DeclarationTable ==
    {<<DeclarationSource(ds), DeclarationChildren(ds)>> :
        ds \in Strings(Declarations, MaxLines)}

\* C21: for a source made only of lines `T id = lit' (single spaces, a
\* newline after each line, T one of int, char, string, float and lit of
\* the matching kind) neither scan nor build fails, and when build has
\* returned the root has exactly one child per line, in line order, each
\* the assign node with children [Identifier(id), Literal(lit)].
C21_PipelineOneChildPerLine ==
    (tokenizerPc = "failed" \/ parserPc \in {"done", "failed"})
    => \A e \in DeclarationTable :
          sourceCode = e[1]
          => /\ tokenizerPc = "done"
             /\ parserPc = "done"
             /\ head.children = e[2]

\* C21 witness: `char x = 'c'' and `string _y1 = "a b"', one per line,
\* have been scanned and built into a root with two children.
C21_Witness ==
    /\ sourceCode =
           StatementLine(T_char, <<"x">>, <<SQ, "c", SQ>>)
               \o StatementLine(T_string, <<"_", "y", "1">>,
                                <<DQ, "a", SP, "b", DQ>>)
    /\ parserPc = "done"
    /\ Len(head.children) = 2
    /\ head.children[2].children[2].token =
           LiteralToken(_stringLit, <<"a", SP, "b">>)

\* The caller's vector of nodes, as a value.
ChildListValue == [n \in 1..Len(childList) |-> Value(heap, childList[n])]

\* C22: addChild(node) appends to the end of the child list: after the call
\* the list is the previous list followed by the node as it was at the call,
\* one longer, the existing children and the node's own token unchanged,
\* whatever calls came before.
C22_AddChildAppends ==
    [][nodeCall'[1] = "addChild" =>
        LET before == Value(heap, nodeCall'[2])
            after == Value(heap', nodeCall'[2])
            node == Value(heap, nodeCall'[3])
        IN  /\ after.children = Append(before.children, node)
            /\ Len(after.children) = Len(before.children) + 1
            /\ \A n \in 1..Len(before.children) :
                   after.children[n] = before.children[n]
            /\ after.token = before.token]_vars

\* A third addChild on the same node has been made, with children that differ.
C22_Witness ==
    /\ nodeCall[1] = "addChild"
    /\ Len(heap[nodeCall[2]].children) = 3
    /\ \E n \in 1..2 :
           Value(heap, nodeCall[2]).children[n]
               # Value(heap, nodeCall[2]).children[n + 1]

\* C23: removeChild(index), the index in range, deletes exactly the element
\* at that position: the children before it stay, those after it move one
\* place to the left in the same order, and the list is one shorter.
C23_RemoveChildDeletesAtIndex ==
    [][nodeCall'[1] = "removeChild" =>
        LET before == Value(heap, nodeCall'[2])
            after == Value(heap', nodeCall'[2])
            index == nodeCall'[3]
        IN  /\ 0 <= index /\ index < Len(before.children)
            /\ Len(after.children) = Len(before.children) - 1
            /\ \A n \in 1..Len(after.children) :
                   after.children[n] =
                       IF n <= index THEN before.children[n]
                       ELSE before.children[n + 1]
            /\ after.token = before.token]_vars

\* The first of three or more children has been removed and two different
\* children have moved to the left.
C23_Witness ==
    /\ nodeCall[1] = "removeChild"
    /\ nodeCall[3] = 0
    /\ Len(heap[nodeCall[2]].children) >= 2
    /\ Value(heap, nodeCall[2]).children[1] # Value(heap, nodeCall[2]).children[2]

\* C24: the list getChildren returns is a copy, and the child addChild
\* stores is a copy: no change to the returned list or to a node in it,
\* and no call on another node, changes the children of a node.
C24_CopiesAreIndependent ==
    [][/\ nodeCall'[1] \in {"getChildren", "listPushBack", "listErase",
                            "listElementAddChild"} =>
              \A r \in Roots : Value(heap', r) = Value(heap, r)
       /\ nodeCall'[1] \in {"addChild", "removeChild"} =>
              \A r \in Roots \ {nodeCall'[2]} : Value(heap', r) = Value(heap, r)
       /\ nodeCall'[1] = "getChildren" =>
              ChildListValue' = Value(heap, nodeCall'[2]).children]_vars

\* A node of the returned list has been given a child, and the list no
\* longer equals the children of the node it came from.
C24_Witness ==
    /\ nodeCall[1] = "listElementAddChild"
    /\ \E r \in Roots :
           /\ Len(heap[r].children) = Len(childList)
           /\ \E n \in 1..Len(childList) :
                  /\ Value(heap, childList[n]).token
                         = Value(heap, r).children[n].token
                  /\ Value(heap, childList[n]) # Value(heap, r).children[n]

\* The scan is about to read a character.
ReadsCharacter == tokenizerPc = "loop" /\ i < Len(sourceCode)

\* The characters that have a rule of their own outside a comment.
CommentPlainCharacters == {HASH, DQ, SQ, SP, TAB}

\* C31 as stated: a `#' outside String, Char and Comment mode discards the
\* pending text, emits no token and enters Comment mode; Comment mode then
\* lasts until a newline or the end of input, and every `#', quote, space
\* and tab read in it emits no token and is appended to the comment text.
C31_CommentSwallowsEverything ==
    [][ReadsCharacter =>
        /\ (sourceCode[i + 1] = HASH /\ ~(stringMode \/ charMode \/ commentMode))
               => /\ commentMode'
                  /\ currentToken' = <<>>
                  /\ tokens' = tokens
        /\ (commentMode /\ sourceCode[i + 1] # NL) => commentMode'
        /\ (commentMode /\ sourceCode[i + 1] \in CommentPlainCharacters)
               => /\ tokens' = tokens
                  /\ currentToken' = Append(currentToken, sourceCode[i + 1])]_vars

\* C31, amended: the same, for the characters of a comment read while no
\* escape is pending (after a backslash the character goes through the
\* escape table, in a comment as elsewhere).
C31_CommentSwallowsUnescaped ==
    [][ReadsCharacter =>
        /\ (sourceCode[i + 1] = HASH /\ ~(stringMode \/ charMode \/ commentMode))
               => /\ commentMode'
                  /\ currentToken' = <<>>
                  /\ tokens' = tokens
        /\ (commentMode /\ sourceCode[i + 1] # NL) => commentMode'
        /\ (commentMode /\ ~escapeMode
                /\ sourceCode[i + 1] \in CommentPlainCharacters)
               => /\ tokens' = tokens
                  /\ currentToken' = Append(currentToken, sourceCode[i + 1])]_vars

\* Text was pending when the `#' was read, and a character with a rule of
\* its own is now the comment text, no token emitted.
C31_Witness ==
    /\ Len(sourceCode) = 3
    /\ sourceCode[1] = "a"
    /\ sourceCode[2] = HASH
    /\ sourceCode[3] \in CommentPlainCharacters
    /\ commentMode
    /\ currentToken = <<sourceCode[3]>>
    /\ tokens = <<>>

\* C32: a tab read outside Comment, String and Char mode never classifies
\* the pending text: the buffer is cleared, no token is emitted for it and
\* exactly one Whitespace(tab) token is appended; a space read there with
\* text pending appends the token the text classifies as and then exactly
\* one Whitespace(space) token.
C32_TabDropsSpaceClassifies ==
    [][/\ ReadsInNormalMode(TAB)
           => /\ tokens' = Append(tokens, TabToken)
              /\ currentToken' = <<>>
              /\ tokenizerPc' = "loop"
       /\ (ReadsInNormalMode(SP) /\ currentToken # <<>>)
           => LET r == parseCurrentToken(currentToken)
              IN  /\ tokens' = tokens \o (IF r.ok THEN <<r.tok>> ELSE <<>>)
                                      \o <<SpaceToken>>
                  /\ currentToken' = <<>>]_vars

\* C33: at the end of the input an open comment is emitted as exactly one
\* Comment token with the accumulated text; otherwise, with neither String
\* nor Char mode open and text pending, the text is classified and emitted,
\* and dropped when it does not classify; with String or Char mode still
\* open no token is emitted.  In every case the scan returns without error.
C33_EndOfInput ==
    [][(tokenizerPc = "loop" /\ ~(i < Len(sourceCode)))
       => /\ tokenizerPc' = "done"
          /\ tokenizerError' = "none"
          /\ tokens' =
               tokens \o
                 (IF commentMode THEN <<CommentToken(currentToken)>>
                  ELSE IF stringMode \/ charMode \/ currentToken = <<>> THEN <<>>
                  ELSE IF parseCurrentToken(currentToken).ok
                  THEN <<parseCurrentToken(currentToken).tok>>
                  ELSE <<>>)]_vars

\* The input ended on text that does not classify: the scan returned, the
\* text dropped.
C33_Witness ==
    /\ tokenizerPc = "done"
    /\ i = Len(sourceCode)
    /\ ~(stringMode \/ charMode)
    /\ currentToken # <<>>
    /\ ~parseCurrentToken(currentToken).ok
    /\ tokens = <<>>

\* The Whitespace subtype of a whitespace character.
WhiteSpaceTypeOf(c) ==
    CASE c = SP -> _space
      [] c = TAB -> _tab
      [] c = NL -> _newLine

\* C34: during a scan the output only grows by appending: the tokens before
\* a step are a prefix of the tokens after it, and Whitespace and Comment
\* tokens are kept: a whitespace character read outside Comment, String
\* and Char mode appends its Whitespace token, and the newline or end of
\* input that closes a comment appends the Comment token.
C34_TokensOnlyGrow ==
    [][/\ IsPrefix(tokens, tokens')
       /\ \A c \in {SP, TAB, NL} :
              (ReadsInNormalMode(c) /\ tokenizerPc' = "loop")
                  => \E n \in (Len(tokens) + 1)..Len(tokens') :
                         tokens'[n] = WhiteSpaceToken(WhiteSpaceTypeOf(c))
       /\ (tokenizerPc = "loop" /\ commentMode /\ ~commentMode')
              => /\ Len(tokens') > Len(tokens)
                 /\ tokens'[Len(tokens) + 1] = CommentToken(currentToken)]_vars

\* A finished scan whose output holds a Comment token, a Whitespace token
\* and a token of another category.
C34_Witness ==
    /\ tokenizerPc = "done"
    /\ \E k, m, n \in 1..Len(tokens) :
           /\ tokens[k].tokenType = _comment
           /\ tokens[m].tokenType = _whitespace
           /\ tokens[n].tokenType \notin {_comment, _whitespace}

\* The parser is about to process a token.
ProcessesToken == parserPc = "loop" /\ tokenIndex < Len(parserTokens)

\* The step leaves both stacks and the root as they are and the loop goes on.
ParserUntouched ==
    /\ operandStack' = operandStack
    /\ expressionStack' = expressionStack
    /\ head' = head
    /\ parserPc' = "loop"

\* An Operator token that is none of = += -= *= /= %= **=.
IsPlainOperator(t) ==
    /\ t.tokenType = _operator
    /\ t.token \notin {_ass, _assAdd, _assSub, _assMul, _assDiv, _assMod, _assPow}

\* ts without the tokens that satisfy Drop.
WithoutTokens(ts, Drop(_)) == SelectSeq(ts, LAMBDA t : ~Drop(t))

\* C35: an Operator token that is not one of the seven assignment forms
\* has no parser action: processing it leaves both stacks and the root
\* unchanged, and a token sequence builds the same tree, with the same
\* stacks and outcome, as the sequence without such operators.
C35_PlainOperatorNoAction ==
    /\ [][(ProcessesToken /\ IsPlainOperator(parserTokens[tokenIndex + 1]))
            => ParserUntouched]_vars
    /\ [](tokenIndex = 0 =>
            \A u \in Indeterminate :
                parseTree(parserTokens, u)[1]
                    = parseTree(WithoutTokens(parserTokens, IsPlainOperator), u)[1])

\* A tree with a statement was built from tokens that hold such an operator.
C35_Witness ==
    /\ parserPc = "done"
    /\ tokenIndex = Len(parserTokens)
    /\ Len(head.children) = 1
    /\ \E n \in 1..Len(parserTokens) : IsPlainOperator(parserTokens[n])

\* The tokens of all the nodes of a tree.
RECURSIVE TokensOf(_)
TokensOf(node) ==
    {node.token} \cup UNION {TokensOf(node.children[n]) : n \in 1..Len(node.children)}

\* A Comment token or a Whitespace(space) or Whitespace(tab) token.
IsBlank(t) ==
    \/ t.tokenType = _comment
    \/ (t.tokenType = _whitespace /\ t.token \in {_space, _tab})

\* C36: Comment tokens and Whitespace(space) and Whitespace(tab) tokens
\* have no effect on the parser: processing one leaves both stacks and the
\* root unchanged, and no Comment or Whitespace token is a node of the
\* tree, during the build and in the tree getTree returns.
C36_BlanksNoEffect ==
    /\ [][(ProcessesToken /\ IsBlank(parserTokens[tokenIndex + 1]))
            => ParserUntouched]_vars
    /\ [](\A t \in TokensOf(head) : t.tokenType \notin {_comment, _whitespace})
    /\ [](\A n \in 1..Len(tree) :
            \A t \in TokensOf(tree[n]) : t.tokenType \notin {_comment, _whitespace})

\* getTree returned a tree with a statement, built from tokens that hold a
\* comment and a space or tab.
C36_Witness ==
    /\ Len(tree) = 1
    /\ Len(tree[1].children) = 1
    /\ \E m, n \in 1..Len(parserTokens) :
           /\ parserTokens[m].tokenType = _comment
           /\ parserTokens[n] \in {SpaceToken, TabToken}

\* An Identifier or Literal token, or a Keyword token of a data type.
IsOperandToken(t) ==
    \/ t.tokenType \in {_identifier, _literal}
    \/ (t.tokenType = _keyWord /\ t.token \in {_int, _float, _string, _char, _bool})

\* A control-flow Keyword token or a Delimiter token.
IsControlOrDelimiter(t) ==
    \/ (t.tokenType = _keyWord
            /\ t.token \in {_if, _elif, _else, _for, _while, _do, _return,
                            _break, _continue})
    \/ t.tokenType = _delimiter

\* C37: the operand stack receives exactly the Identifier tokens, the
\* Literal tokens and the Keyword tokens of the data types, each pushed
\* once in token order: such a token is appended to the operand stack, no
\* other token adds an entry to it; a control-flow Keyword and a Delimiter
\* token leave both stacks and the root unchanged.
C37_OperandStackPushes ==
    [][ProcessesToken =>
        /\ IsOperandToken(parserTokens[tokenIndex + 1])
              => /\ operandStack'
                        = Append(operandStack,
                                 ExpressionNode(parserTokens[tokenIndex + 1]))
                 /\ expressionStack' = expressionStack
                 /\ head' = head
        /\ ~IsOperandToken(parserTokens[tokenIndex + 1])
              => IsPrefix(operandStack', operandStack)
        /\ IsControlOrDelimiter(parserTokens[tokenIndex + 1])
              => ParserUntouched]_vars

\* A data type, a name and a literal are on the operand stack in that
\* order, a control-flow keyword and a delimiter processed among them.
C37_Witness ==
    /\ parserPc = "loop"
    /\ Len(operandStack) = 2
    /\ operandStack[1] = ExpressionNode(KeyWordToken(_int))
    /\ operandStack[2] = ExpressionNode(IdentifierToken(<<"x">>))
    /\ \E m, n \in 1..tokenIndex :
           /\ parserTokens[m] = KeyWordToken(_if)
           /\ parserTokens[n] = DelimiterToken(_bracketOpen)

\* C38: right after a newline on which a statement was assembled and
\* attached both stacks are empty, whatever they held: entries beyond the
\* three operands and the operator of the statement are discarded.
C38_StacksEmptyAfterAssembly ==
    [][(/\ ProcessesToken
        /\ parserTokens[tokenIndex + 1] = NewLineToken
        /\ Len(head'.children) = Len(head.children) + 1)
       => /\ operandStack' = <<>>
          /\ expressionStack' = <<>>
          /\ parserPc' = "loop"]_vars

\* The first line, a compound assignment, assembled nothing and left three
\* operands and an operator behind; the second newline assembled a
\* statement and the stacks are empty.
C38_Witness ==
    /\ parserPc = "loop"
    /\ tokenIndex = 10
    /\ parserTokens[5] = NewLineToken
    /\ parserTokens[4].tokenType = _literal
    /\ parserTokens[3] = OperatorToken(_assAdd)
    /\ parserTokens[10] = NewLineToken
    /\ Len(head.children) = 1
    /\ operandStack = <<>>
    /\ expressionStack = <<>>

\* The tree below the root `node' has the shape of a list of statements.
StatementShaped(node) ==
    /\ node.token = ExpressionToken
    /\ \A m \in 1..Len(node.children) :
           /\ Len(node.children[m].children) = 2
           /\ \A n \in 1..2 : node.children[m].children[n].children = <<>>

\* C39: in every state of a build the root wraps the Expression token,
\* every child of the root has exactly two children and these have none,
\* the children of the root are no more than the newline tokens processed
\* so far, and the list of them only grows by appending.
C39_TreeShape ==
    /\ [](/\ StatementShaped(head)
          /\ Len(head.children) <= NewlinesIn(tokenIndex)
          /\ \A n \in 1..Len(tree) : StatementShaped(tree[n]))
    /\ [][IsPrefix(head.children, head'.children)]_vars

\* Two different statements are under the root, one per newline processed.
C39_Witness ==
    /\ Len(head.children) = 2
    /\ head.children[1] # head.children[2]
    /\ NewlinesIn(tokenIndex) = 2

====
